---- MODULE Spec2Model ----
(***************************************************************************)
(* A model of the authentication and session-lifecycle engine of          *)
(* auth-manager: AuthService (register, login, refresh_token, logout,     *)
(* change_password) over the three repositories (users, refresh_tokens,   *)
(* login_attempts).                                                        *)
(*                                                                         *)
(* Every handler is split at its Session Store calls: one action per      *)
(* store call, together with the local computation that precedes it.      *)
(* Time is counted in minutes.  Strings are sequences of one-character    *)
(* strings, so that two strings can always be compared.                   *)
(***************************************************************************)
EXTENDS Integers, Sequences, FiniteSets, Bags, TLC

(***************************************************************************)
(* Bounds of the model.                                                    *)
(***************************************************************************)
NumWorkers == 2
\* sessions: few login attempts, several refresh tokens
MaxTicks == 2
MaxUsers == 1
MaxTokens == 3
MaxAttempts == 2
\* store calls may fail: one login and two rotations
FaultUsers == 1
FaultTokens == 3
FaultAttempts == 1
\* accounts: two accounts, few logins
AccountUsers == 2
AccountTokens == 2
AccountAttempts == 2
\* failures of two accounts inside one window: four failures, a success,
\* a fifth failure and a refused login, at three instants
FailureTicks == 2
FailureUsers == 2
FailureTokens == 1
FailureAttempts == 6
\* a locked-out account: a login, five failures, a rotation
ImmuneUsers == 1
ImmuneTokens == 2
ImmuneAttempts == 6
\* protected routes: two accounts, an access token, one clock step
ProtectedTicks == 1
ProtectedUsers == 2
ProtectedTokens == 1
ProtectedAttempts == 1
\* sessions: a login of each of two accounts and a rotation
SessionTokens == 3
\* concurrent logins: one failure more than the lockout allows to every
\* worker, and the clock reaches the far edge of the window
ContentionTicks == 1
ContentionUsers == 1
ContentionTokens == 1
ContentionAttempts == 7
\* the ledger of attempts: rows on either edge of the window
LedgerTicks == 2
\* access tokens: the clock passes the expiry of a token and its leeway
TokenTicks == 2
\* every operation with store calls that may fail: one login, one rotation
StorageUsers == 1
StorageTokens == 2
StorageAttempts == 1
\* lockout: enough login attempts to lock an account
LockoutTicks == 2
LockoutUsers == 1
LockoutTokens == 1
LockoutAttempts == 6

(***************************************************************************)
(* Program constants.                                                      *)
(***************************************************************************)
MAX_FAILED_ATTEMPTS == 5
LOCKOUT_WINDOW_MINUTES == 15
REFRESH_TOKEN_DAYS == 7
JWT_EXPIRATION_HOURS == 1
\* the leeway of Validation::default(), 60 seconds
LEEWAY_MINUTES == 1

\* Option::None of a nullable Uuid or timestamp column.
None == 0 - 1

\* Option::None of the nullable column password_hash.
NoHash == <<"NULL">>

Workers == 1 .. NumWorkers

\* The clock advances by the lockout window or by the lifetime of a refresh
\* token, so that one step reaches each of the two boundaries exactly.
TickSteps == {LOCKOUT_WINDOW_MINUTES, REFRESH_TOKEN_DAYS * 24 * 60}

\* For access tokens the clock advances by the lifetime of an access token
\* or by the leeway of its verification.
TokenTickSteps == {JWT_EXPIRATION_HOURS * 60, LEEWAY_MINUTES}

(***************************************************************************)
(* Inputs.                                                                 *)
(***************************************************************************)
EmailA == <<"a", "@", "x", ".", "i", "o">>
EmailB == <<"b", "@", "x", ".", "i", "o">>
EmailBad == <<"n", "o", "m", "a", "i", "l">>
Emails == {EmailA, EmailB, EmailBad}

Alice == <<"a", "l", "i", "c", "e">>
Bob == <<"b", "o", "b">>

\* bcrypt reads the first 72 bytes of a password
BCRYPT_MAX_BYTES == 72

PassA == <<"A", "l", "i", "c", "e", "1", "2", "3">>
PassB == <<"a", "L", "I", "C", "E", "1", "2", "3">>
PassWeak == <<"w", "e", "a", "k">>
Passwords == {PassA, PassB}

RegisterRequest(email, username, password) ==
    [email |-> email, username |-> username, password |-> password]

RegisterRequests ==
    {RegisterRequest(EmailA, Alice, PassA),
     RegisterRequest(EmailB, Bob, PassB),
     RegisterRequest(EmailBad, Alice, PassA),
     RegisterRequest(EmailB, Bob, PassWeak)}

UserAgents == {<<"c", "u", "r", "l">>}

Salts == {"s1"}

\* The salts the generator of bcrypt draws when hash is called on its own;
\* a salt of 16 random bytes is taken never to be drawn twice.
PasswordSalts == {"s1", "s2", "s3"}

\* Two passwords longer than the bytes bcrypt reads, equal in those bytes.
Pad == [i \in 1 .. BCRYPT_MAX_BYTES |-> PassA[((i - 1) % Len(PassA)) + 1]]
LongA == Pad \o <<"x">>
LongB == Pad \o <<"y">>

\* The passwords that hash and verify are called with on their own.
PasswordInputs == Passwords \cup {PassWeak, LongA, LongB, <<>>}

EmptyString == <<>>
Garbage == <<"g", "a", "r", "b", "a", "g", "e">>

(***************************************************************************)
(* Characters.                                                             *)
(***************************************************************************)
UpperCase ==
    {"A", "B", "C", "D", "E", "F", "G", "H", "I", "J", "K", "L", "M",
     "N", "O", "P", "Q", "R", "S", "T", "U", "V", "W", "X", "Y", "Z"}
LowerCase ==
    {"a", "b", "c", "d", "e", "f", "g", "h", "i", "j", "k", "l", "m",
     "n", "o", "p", "q", "r", "s", "t", "u", "v", "w", "x", "y", "z"}
Digits == {"0", "1", "2", "3", "4", "5", "6", "7", "8", "9"}

Contains(s, c) == \E i \in 1 .. Len(s) : s[i] = c

\* an email test that accepts every string
is_valid_email_any(email) == TRUE

\* AuthService::is_valid_email
is_valid_email(email) ==
    Contains(email, "@") /\ Contains(email, ".") /\ Len(email) > 5

\* a strength test that accepts every password
is_strong_password_any(password) == TRUE

\* AuthService::is_strong_password
is_strong_password(password) ==
    IF Len(password) < 8
    THEN FALSE
    ELSE /\ \E i \in 1 .. Len(password) : password[i] \in UpperCase
         /\ \E i \in 1 .. Len(password) : password[i] \in LowerCase
         /\ \E i \in 1 .. Len(password) : password[i] \in Digits

(***************************************************************************)
(* PasswordManager: a bcrypt hash is the prefix, the salt and the digest   *)
(* of the secret; the digest is modelled by the bytes of the secret that   *)
(* bcrypt reads, which only verify compares.                              *)
(***************************************************************************)
BcryptPrefix == "$2b$12$"

\* The bytes of a secret that bcrypt::hash and bcrypt::verify read.
Truncated(secret) ==
    IF Len(secret) > BCRYPT_MAX_BYTES
    THEN SubSeq(secret, 1, BCRYPT_MAX_BYTES)
    ELSE secret

\* PasswordManager::hash with the salt the generator drew
Hash(salt, secret) == <<BcryptPrefix, salt>> \o Truncated(secret)

IsBcrypt(h) == Len(h) >= 2 /\ h[1] = BcryptPrefix /\ h[2] \in PasswordSalts

\* PasswordManager::verify for a well-formed hash
Verify(secret, h) == SubSeq(h, 3, Len(h)) = Truncated(secret)

\* uuid::Uuid::new_v4().to_string() for the n-th identifier drawn
UuidString(n) == <<"uuid-" \o ToString(n)>>

(***************************************************************************)
(* State.                                                                  *)
(***************************************************************************)
VARIABLES
    now,             \* Utc::now(), in minutes
    ticks,           \* how many times the clock has advanced
    users,           \* table users
    user_ids,        \* how many user ids the store has assigned
    refresh_tokens,  \* table refresh_tokens
    login_attempts,  \* table login_attempts, a bag of rows
    uuids,           \* how many refresh secrets Uuid::new_v4 has produced
    pc,              \* where each worker stands in its call
    req,             \* the request each worker serves
    loc,             \* the local variables of the call
    res,             \* the result of each worker's last call
    obs,             \* history: what held when the call started
    creds            \* history: every refresh credential ever created

vars ==
    <<now, ticks, users, user_ids, refresh_tokens, login_attempts, uuids,
      pc, req, loc, res, obs, creds>>

store == <<users, user_ids, refresh_tokens, login_attempts, uuids>>

NoRes == [ok |-> FALSE, err |-> "none"]
NoReq == [op |-> "none"]
NoLoc == [step |-> "none"]
NoObs == [op |-> "none"]

Init ==
    /\ now = 0
    /\ ticks = 0
    /\ users = {}
    /\ user_ids = 0
    /\ refresh_tokens = {}
    /\ login_attempts = EmptyBag
    /\ uuids = 0
    /\ pc = [w \in Workers |-> "idle"]
    /\ req = [w \in Workers |-> NoReq]
    /\ loc = [w \in Workers |-> NoLoc]
    /\ res = [w \in Workers |-> NoRes]
    /\ obs = [w \in Workers |-> NoObs]
    /\ creds = <<>>

Free(w) == pc[w] \in {"idle", "done"}

Err(e) == [ok |-> FALSE, err |-> e]

\* The call of worker w returns r.
Return(w, r) ==
    /\ pc' = [pc EXCEPT ![w] = "done"]
    /\ res' = [res EXCEPT ![w] = r]
    /\ loc' = [loc EXCEPT ![w] = NoLoc]
    /\ req' = [req EXCEPT ![w] = NoReq]

\* The call of worker w goes on at step p with the locals l.
Goto(w, p, l) ==
    /\ pc' = [pc EXCEPT ![w] = p]
    /\ loc' = [loc EXCEPT ![w] = l]
    /\ res' = [res EXCEPT ![w] = NoRes]

\* The call q of worker w starts and goes on at step p.
Start(w, q, p, l) == Goto(w, p, l) /\ req' = [req EXCEPT ![w] = q]

Continue(w, p, l) == Goto(w, p, l) /\ req' = req

(***************************************************************************)
(* The repositories.                                                       *)
(***************************************************************************)
\* a lookup by email that finds no account
find_by_email_none(email) == {}

\* UserRepository::find_by_email
find_by_email(email) == {u \in users : u.email = email}

\* a lookup that forgets the expiry filter
find_by_hash_any(hash) == {t \in refresh_tokens : t.token_hash = hash}

\* RefreshTokenRepository::find_by_hash
find_by_hash(hash) ==
    {t \in refresh_tokens : t.token_hash = hash /\ t.expires_at > now}

\* a delete that removes no row
delete_nothing(id) == refresh_tokens

\* a deletion that takes every row of the owner of the row
delete_sessions(id) ==
    {t \in refresh_tokens :
        \A o \in refresh_tokens : o.id = id => t.user_id # o.user_id}

\* RefreshTokenRepository::delete
delete(id) == {t \in refresh_tokens : t.id # id}

\* a delete_by_user that removes the rows of every account
delete_by_user_all(user_id) == {}

\* a delete_by_user that removes no row
delete_by_user_nothing(user_id) == refresh_tokens

\* RefreshTokenRepository::delete_by_user
delete_by_user(user_id) == {t \in refresh_tokens : t.user_id # user_id}

\* a count of the failed attempts that does not look at their age
count_failed_attempts_ever(user_id, minutes) ==
    LET rows == {a \in BagToSet(login_attempts) :
                    /\ a.user_id = user_id
                    /\ a.success = FALSE}
    IN  BagCardinality([a \in rows |-> CopiesIn(a, login_attempts)])

\* a count of the failed attempts that does not look at the account
count_failed_attempts_any(user_id, minutes) ==
    LET rows == {a \in BagToSet(login_attempts) :
                    /\ a.success = FALSE
                    /\ a.attempted_at > now - minutes}
    IN  BagCardinality([a \in rows |-> CopiesIn(a, login_attempts)])

\* LoginAttemptRepository::count_failed_attempts
count_failed_attempts(user_id, minutes) ==
    LET rows == {a \in BagToSet(login_attempts) :
                    /\ a.user_id = user_id
                    /\ a.success = FALSE
                    /\ a.attempted_at > now - minutes}
    IN  BagCardinality([a \in rows |-> CopiesIn(a, login_attempts)])

\* an attempt row that never names the account
NewLoginAttemptAnonymous(user_id, success, user_agent) ==
    [user_id |-> None, success |-> success, attempted_at |-> now,
     user_agent |-> user_agent]

\* the row LoginAttemptRepository::create inserts
NewLoginAttempt(user_id, success, user_agent) ==
    [user_id |-> user_id, success |-> success, attempted_at |-> now,
     user_agent |-> user_agent]

\* an account that is created verified
NewUserVerified(id, email, username, password_hash) ==
    [id |-> id, email |-> email, username |-> username,
     password_hash |-> password_hash, email_verified |-> TRUE,
     is_active |-> TRUE, last_login_at |-> None]

\* the row UserRepository::create inserts
NewUser(id, email, username, password_hash) ==
    [id |-> id, email |-> email, username |-> username,
     password_hash |-> password_hash, email_verified |-> FALSE,
     is_active |-> TRUE, last_login_at |-> None]

\* a table users without a unique key on email
EmailKeyFree(email) == FALSE

\* the unique key of table users on email
EmailKey(email) == \E u \in users : u.email = email

\* the unique key of table users on username
UsernameKey(username) == \E u \in users : u.username = username

\* DatabaseErrorKind::UniqueViolation of an insert into users
UniqueViolation(email, username) == EmailKey(email) \/ UsernameKey(username)

\* a row that is always owned by the first account
NewRefreshTokenFirstAccount(id, user_id, token_hash, expires_at) ==
    [id |-> id, user_id |-> 1, token_hash |-> token_hash,
     expires_at |-> expires_at]

\* the row RefreshTokenRepository::create inserts
NewRefreshToken(id, user_id, token_hash, expires_at) ==
    [id |-> id, user_id |-> user_id, token_hash |-> token_hash,
     expires_at |-> expires_at]

\* The key of JwtManager::new, and a key it does not hold.
Secret == "secret"
OtherSecret == "other"

\* The signature that encode computes over the claims with a key.
Mac(key, sub, exp, iat) == <<key, sub, exp, iat>>

\* JwtManager::generate_token
generate_token(user_id, expires_in_hours) ==
    LET exp == now + expires_in_hours * 60
    IN  [sub |-> user_id, exp |-> exp, iat |-> now,
         mac |-> Mac(Secret, user_id, exp, now)]

\* a verification that also looks the subject up in table users
verify_token_stored(token) ==
    IF token.mac # Mac(Secret, token.sub, token.exp, token.iat)
    THEN Err("InvalidSignature")
    ELSE IF token.exp < now - LEEWAY_MINUTES
    THEN Err("ExpiredSignature")
    ELSE IF ~\E u \in users : u.id = token.sub
    THEN Err("InvalidSubject")
    ELSE [ok |-> TRUE, err |-> "none",
          claims |-> [sub |-> token.sub, exp |-> token.exp,
                      iat |-> token.iat]]

\* JwtManager::verify_token: decode with Validation::default(), which checks
\* the signature and then refuses a token whose exp lies more than the
\* leeway before the current time.
verify_token(token) ==
    IF token.mac # Mac(Secret, token.sub, token.exp, token.iat)
    THEN Err("InvalidSignature")
    ELSE IF token.exp < now - LEEWAY_MINUTES
    THEN Err("ExpiredSignature")
    ELSE [ok |-> TRUE, err |-> "none",
          claims |-> [sub |-> token.sub, exp |-> token.exp,
                      iat |-> token.iat]]

generate_access_token(user_id) == generate_token(user_id, JWT_EXPIRATION_HOURS)

\* a refresh token that lives as long as an access token
RefreshExpiryShort == now + JWT_EXPIRATION_HOURS * 60

\* the expiry of a refresh token created now
RefreshExpiry == now + REFRESH_TOKEN_DAYS * 24 * 60

(***************************************************************************)
(* History of the refresh credentials: creds[n] describes the n-th        *)
(* credential created.  session is the login the credential descends      *)
(* from; issued says that it was returned to a caller; spent counts the   *)
(* successful rotations that consumed it; revoked says that a logout of   *)
(* its account succeeded after it was issued; broken says that a rotation *)
(* deleted its row and then stopped before creating the next one;         *)
(* access_token is the access token made together with it.                *)
(***************************************************************************)
NewCred(user_id, secret, hash, session, by, access_token) ==
    [user_id |-> user_id, secret |-> secret, hash |-> hash,
     session |-> session, by |-> by, issued |-> FALSE, spent |-> 0,
     revoked |-> FALSE, broken |-> FALSE, access_token |-> access_token]

CredIds == 1 .. Len(creds)

\* The row of credential n is in the table and has not expired.
Live(n) == \E t \in refresh_tokens : t.id = n /\ t.expires_at > now

\* The store as a call finds it when it starts.
Before ==
    [users |-> users, refresh_tokens |-> refresh_tokens,
     login_attempts |-> login_attempts]

\* The digest o of a call, after the call issued the store call named call,
\* which ended f.
Call(o, call, f) == [o EXCEPT !.calls = Append(@, <<call, f>>)]

\* a store call whose failure goes unnoticed
FailedNever(f) == FALSE

\* A store call that ended f returned Err, which the ? operator propagates.
Failed(f) == f # "ok"

\* a ledger write whose failure ends the call
DiscardNothing(f, r) == IF Failed(f) THEN Err("DatabaseError") ELSE r

\* The result of a ledger write that ended f is dropped (let _ =): the call
\* goes on to r as if the write had succeeded.
Discard(f, r) == r

\* What holds of a Register call when it starts.
ObserveRegister(register_request) ==
    [op |-> "register",
     request |-> register_request,
     email_taken |-> \E u \in users : u.email = register_request.email,
     name_taken |-> \E u \in users : u.username = register_request.username,
     before |-> Before,
     calls |-> <<>>]

\* The Register or ChangePassword call, if any, that worker w has served
\* last: a successful one, or a ChangePassword call that failed, with the
\* hash the account had when that call started.
Served(w) ==
    IF res[w].ok /\ obs[w].op = "register"
    THEN [op |-> "register", email |-> obs[w].request.email,
          password |-> obs[w].request.password]
    ELSE IF res[w].ok /\ obs[w].op = "change"
    THEN [op |-> "change", user_id |-> obs[w].user_id,
          old_password |-> obs[w].old_password,
          new_password |-> obs[w].new_password,
          refresh_tokens |-> obs[w].before.refresh_tokens]
    ELSE IF obs[w].op = "change"
    THEN [op |-> "change_failed", user_id |-> obs[w].user_id,
          err |-> res[w].err,
          hashes |-> {u.password_hash : u \in
                         {v \in obs[w].before.users :
                             v.id = obs[w].user_id}}]
    ELSE [op |-> "none"]

\* What holds of the credential a RefreshToken call presents, when it starts.
ObserveRefresh(w, token) ==
    [op |-> "refresh",
     token |-> token,
     at |-> now,
     was_spent |-> \E n \in CredIds :
         creds[n].spent > 0 /\ token = creds[n].hash,
     was_revoked |-> \E n \in CredIds :
         creds[n].revoked /\ token \in {creds[n].hash, creds[n].secret},
     saw_expired |-> \E t \in refresh_tokens :
         t.token_hash = token /\ t.expires_at < now,
     login_secret |-> \E n \in CredIds :
         /\ creds[n].by = "login" /\ creds[n].issued
         /\ token = creds[n].secret /\ Live(n),
     login_cookie |-> \E n \in CredIds :
         /\ creds[n].by = "login" /\ creds[n].issued
         /\ token = creds[n].hash /\ Live(n),
     overlap |-> \E v \in Workers \ {w} :
         /\ pc[v] \in {"r_delete", "r_create"}
         /\ req[v].refresh_token = token,
     found_expired |-> FALSE,
     follows |-> Served(w),
     calls |-> <<>>]

\* What holds of a Login call of worker w when it starts; follows tells the
\* successful Register or ChangePassword call it comes right after.
ObserveLogin(w, email, password) ==
    [op |-> "login",
     follows |-> Served(w),
     email |-> email,
     password |-> password,
     known |-> find_by_email(email) # {},
     password_ok |-> \E u \in find_by_email(email) :
         Verify(password, u.password_hash),
     counted |-> FALSE,
     saw_locked |-> FALSE,
     created |-> 0,
     at |-> now,
     before |-> Before,
     calls |-> <<>>]

(***************************************************************************)
(* The clock.                                                              *)
(***************************************************************************)
Tick ==
    /\ \E d \in TickSteps : now' = now + d
    /\ ticks' = ticks + 1
    /\ UNCHANGED <<store, pc, req, loc, res, obs, creds>>

(***************************************************************************)
(* AuthService::register                                                   *)
(***************************************************************************)
\* validation and UserRepository::find_by_email
RegisterFind(w, register_request, f) ==
    /\ Free(w)
    /\ LET seen == ObserveRegister(register_request)
       IN  IF ~is_valid_email(register_request.email)
           THEN /\ Return(w, Err("InvalidEmail"))
                /\ obs' = [obs EXCEPT ![w] = seen]
           ELSE IF ~is_strong_password(register_request.password)
           THEN /\ Return(w, Err("WeakPassword"))
                /\ obs' = [obs EXCEPT ![w] = seen]
           ELSE /\ obs' = [obs EXCEPT ![w] = Call(seen, "find_by_email", f)]
                /\ IF Failed(f)
                   THEN Return(w, Err("DatabaseError"))
                   ELSE IF find_by_email(register_request.email) # {}
                   THEN Return(w, Err("UserAlreadyExists"))
                   ELSE Start(w, register_request, "g_create", NoLoc)
    /\ UNCHANGED <<now, ticks, store, creds>>

\* PasswordManager::hash and UserRepository::create
RegisterCreate(w, salt, f) ==
    /\ pc[w] = "g_create"
    /\ IF f = "hash"
       THEN /\ Return(w, Err("PasswordHashingFailed"))
            /\ UNCHANGED <<store, obs>>
       ELSE /\ obs' = [obs EXCEPT ![w] = Call(@, "users.create", f)]
            /\ IF Failed(f)
               THEN Return(w, Err("DatabaseError")) /\ UNCHANGED store
               ELSE IF UniqueViolation(req[w].email, req[w].username)
               THEN Return(w, Err("Duplicate")) /\ UNCHANGED store
               ELSE LET u == NewUser(user_ids + 1, req[w].email,
                                     req[w].username,
                                     Hash(salt, req[w].password))
                    IN  /\ users' = users \cup {u}
                        /\ user_ids' = user_ids + 1
                        /\ Return(w, [ok |-> TRUE, err |-> "none",
                                      user |-> u.id])
                        /\ UNCHANGED <<refresh_tokens, login_attempts, uuids>>
    /\ UNCHANGED <<now, ticks, creds>>

(***************************************************************************)
(* AuthService::login                                                      *)
(***************************************************************************)
LoginRequest(email, password, user_agent) ==
    [email |-> email, password |-> password, user_agent |-> user_agent]

\* validation and UserRepository::find_by_email
LoginFind(w, login_request, f) ==
    /\ Free(w)
    /\ LET seen == ObserveLogin(w, login_request.email,
                                login_request.password)
       IN  IF ~is_valid_email(login_request.email)
           THEN /\ Return(w, Err("InvalidEmail"))
                /\ obs' = [obs EXCEPT ![w] = seen]
           ELSE /\ obs' = [obs EXCEPT ![w] = Call(seen, "find_by_email", f)]
                /\ IF Failed(f)
                   THEN Return(w, Err("DatabaseError"))
                   ELSE IF find_by_email(login_request.email) = {}
                   THEN Start(w, login_request, "l_unknown", NoLoc)
                   ELSE Start(w, login_request, "l_count",
                              [user |-> CHOOSE u \in
                                  find_by_email(login_request.email) : TRUE])
    /\ UNCHANGED <<now, ticks, store, creds>>

\* LoginAttemptRepository::create(None, false, ..) for an unknown email
LoginUnknown(w, f) ==
    /\ pc[w] = "l_unknown"
    /\ IF f = "ok"
       THEN login_attempts' = login_attempts (+)
                   SetToBag({NewLoginAttempt(None, FALSE, req[w].user_agent)})
       ELSE login_attempts' = login_attempts
    /\ obs' = [obs EXCEPT ![w] = Call(@, "login_attempts.create", f)]
    /\ Return(w, Discard(f, Err("NotFound")))
    /\ UNCHANGED <<now, ticks, users, user_ids, refresh_tokens, uuids, creds>>

\* a lockout test that locks one failure too late
LockedLater(failed_count) == failed_count > MAX_FAILED_ATTEMPTS

\* the lockout test of login
Locked(failed_count) == failed_count >= MAX_FAILED_ATTEMPTS

\* LoginAttemptRepository::count_failed_attempts, the lockout test and
\* PasswordManager::verify
LoginCount(w, f) ==
    /\ pc[w] = "l_count"
    /\ IF Failed(f)
       THEN /\ Return(w, Err("DatabaseError"))
            /\ obs' = [obs EXCEPT ![w] = Call(@, "count_failed_attempts", f)]
       ELSE LET user == loc[w].user
                failed_count ==
                    count_failed_attempts(user.id, LOCKOUT_WINDOW_MINUTES)
            IN  /\ obs' = [obs EXCEPT ![w] =
                              [Call(@, "count_failed_attempts", f) EXCEPT
                                  !.counted = TRUE,
                                  !.saw_locked =
                                      failed_count >= MAX_FAILED_ATTEMPTS]]
                /\ IF Locked(failed_count)
                   THEN Return(w, Err("TooManyAttempts"))
                   ELSE IF user.password_hash = NoHash
                   THEN Return(w, Err("DatabaseError"))
                   ELSE IF ~IsBcrypt(user.password_hash)
                   THEN Return(w, Err("PasswordHashingFailed"))
                   ELSE IF ~Verify(req[w].password, user.password_hash)
                   THEN Continue(w, "l_reject", loc[w])
                   ELSE Continue(w, "l_create", loc[w])
    /\ UNCHANGED <<now, ticks, store, creds>>

\* LoginAttemptRepository::create(Some(user.id), false, ..)
LoginReject(w, f) ==
    /\ pc[w] = "l_reject"
    /\ IF f = "ok"
       THEN login_attempts' = login_attempts (+)
                   SetToBag({NewLoginAttempt(loc[w].user.id, FALSE,
                                             req[w].user_agent)})
       ELSE login_attempts' = login_attempts
    /\ obs' = [obs EXCEPT ![w] = Call(@, "login_attempts.create", f)]
    /\ Return(w, Discard(f, Err("InvalidPassword")))
    /\ UNCHANGED <<now, ticks, users, user_ids, refresh_tokens, uuids, creds>>

\* generate_access_token, Uuid::new_v4, PasswordManager::hash and
\* RefreshTokenRepository::create
LoginCreate(w, salt, f) ==
    /\ pc[w] = "l_create"
    /\ LET user == loc[w].user
           access_token == generate_access_token(user.id)
           refresh_token == UuidString(uuids + 1)
           refresh_token_hash == Hash(salt, refresh_token)
           cred == NewCred(user.id, refresh_token, refresh_token_hash,
                           uuids + 1, "login", access_token)
       IN  IF f = "hash"
           THEN /\ Return(w, Err("PasswordHashingFailed"))
                /\ UNCHANGED <<refresh_tokens, uuids, obs, creds>>
           ELSE IF Failed(f)
           THEN /\ Return(w, Err("DatabaseError"))
                /\ obs' = [obs EXCEPT ![w] =
                              Call(@, "refresh_tokens.create", f)]
                /\ UNCHANGED <<refresh_tokens, uuids, creds>>
           ELSE    /\ uuids' = uuids + 1
                   /\ refresh_tokens' = refresh_tokens \cup
                          {NewRefreshToken(uuids + 1, user.id,
                                           refresh_token_hash, RefreshExpiry)}
                   /\ creds' = Append(creds, cred)
                   /\ obs' = [obs EXCEPT ![w] =
                                 [Call(@, "refresh_tokens.create", f) EXCEPT
                                     !.created = uuids + 1]]
                   /\ Continue(w, "l_update",
                               [user |-> user, access_token |-> access_token,
                                refresh_token |-> refresh_token,
                                refresh_token_hash |-> refresh_token_hash,
                                created |-> uuids + 1])
    /\ UNCHANGED <<now, ticks, users, user_ids, login_attempts>>

\* UserRepository::update_last_login
LoginUpdate(w, f) ==
    /\ pc[w] = "l_update"
    /\ obs' = [obs EXCEPT ![w] = Call(@, "update_last_login", f)]
    /\ IF Failed(f)
       THEN Return(w, Err("DatabaseError")) /\ UNCHANGED users
       ELSE IF ~\E u \in users : u.id = loc[w].user.id
       THEN Return(w, Err("NotFound")) /\ UNCHANGED users
       ELSE /\ users' = {IF u.id = loc[w].user.id
                         THEN [u EXCEPT !.last_login_at = now]
                         ELSE u : u \in users}
            /\ Continue(w, "l_record", loc[w])
    /\ UNCHANGED <<now, ticks, user_ids, refresh_tokens, login_attempts,
                   uuids, creds>>

\* a successful login that clears the failures of the account
LoginRecordClearing(w, f) ==
    /\ pc[w] = "l_record"
    /\ login_attempts' =
           [a \in {b \in BagToSet(login_attempts) :
                      b.user_id # loc[w].user.id \/ b.success}
               |-> CopiesIn(a, login_attempts)]
           (+) SetToBag({NewLoginAttempt(loc[w].user.id, TRUE,
                                         req[w].user_agent)})
    /\ obs' = [obs EXCEPT ![w] = Call(@, "login_attempts.create", f)]
    /\ Return(w, [ok |-> TRUE, err |-> "none",
                  access_token |-> loc[w].access_token,
                  refresh_token |-> loc[w].refresh_token,
                  user |-> loc[w].user.id,
                  expires_in |-> JWT_EXPIRATION_HOURS * 3600,
                  refresh_token_hash |-> loc[w].refresh_token_hash])
    /\ creds' = [creds EXCEPT ![loc[w].created].issued = TRUE]
    /\ UNCHANGED <<now, ticks, users, user_ids, refresh_tokens, uuids>>

\* LoginAttemptRepository::create(Some(user.id), true, ..) and the response
LoginRecord(w, f) ==
    /\ pc[w] = "l_record"
    /\ IF f = "ok"
       THEN login_attempts' = login_attempts (+)
                   SetToBag({NewLoginAttempt(loc[w].user.id, TRUE,
                                             req[w].user_agent)})
       ELSE login_attempts' = login_attempts
    /\ obs' = [obs EXCEPT ![w] = Call(@, "login_attempts.create", f)]
    /\ Return(w, Discard(f, [ok |-> TRUE, err |-> "none",
                             access_token |-> loc[w].access_token,
                             refresh_token |-> loc[w].refresh_token,
                             user |-> loc[w].user.id,
                             expires_in |-> JWT_EXPIRATION_HOURS * 3600,
                             refresh_token_hash |->
                                 loc[w].refresh_token_hash]))
    /\ creds' = [creds EXCEPT ![loc[w].created].issued = TRUE]
    /\ UNCHANGED <<now, ticks, users, user_ids, refresh_tokens, uuids>>

(***************************************************************************)
(* AuthService::refresh_token                                              *)
(***************************************************************************)
RefreshTokenRequest(refresh_token) == [refresh_token |-> refresh_token]

\* the empty test and RefreshTokenRepository::find_by_hash
RefreshFind(w, refresh_token_request, f) ==
    /\ Free(w)
    /\ LET token == refresh_token_request.refresh_token
           seen == ObserveRefresh(w, token)
       IN  IF Len(token) = 0
           THEN Return(w, Err("InvalidRefreshToken"))
                /\ obs' = [obs EXCEPT ![w] = seen]
           ELSE IF Failed(f)
           THEN Return(w, Err("DatabaseError"))
                /\ obs' = [obs EXCEPT ![w] = Call(seen, "find_by_hash", f)]
           ELSE IF find_by_hash(token) = {}
           THEN Return(w, Err("InvalidRefreshToken"))
                /\ obs' = [obs EXCEPT ![w] = Call(seen, "find_by_hash", f)]
           ELSE LET old_token == CHOOSE t \in find_by_hash(token) : TRUE
                IN  /\ Start(w, refresh_token_request, "r_delete",
                             [old_token |-> old_token])
                    /\ obs' = [obs EXCEPT ![w] =
                                  [Call(seen, "find_by_hash", f) EXCEPT
                                      !.found_expired =
                                          ~(old_token.expires_at > now)]]
    /\ UNCHANGED <<now, ticks, store, creds>>

\* a rotation that a failed deletion of the old row ends
RefreshDeleteFatal(w, f) ==
    /\ pc[w] = "r_delete"
    /\ LET old_token == loc[w].old_token
       IN  IF old_token.expires_at < now
           THEN /\ Return(w, Err("RefreshTokenExpired"))
                /\ UNCHANGED <<refresh_tokens, obs>>
           ELSE IF f # "ok"
           THEN /\ obs' = [obs EXCEPT ![w] =
                              Call(@, "refresh_tokens.delete", f)]
                /\ Return(w, Err("DatabaseError"))
                /\ UNCHANGED refresh_tokens
           ELSE /\ obs' = [obs EXCEPT ![w] =
                              Call(@, "refresh_tokens.delete", f)]
                /\ refresh_tokens' = delete(old_token.id)
                /\ Continue(w, "r_create",
                            [old_token |-> old_token,
                             access_token |->
                                 generate_access_token(old_token.user_id),
                             deleted |-> TRUE])
    /\ UNCHANGED <<now, ticks, users, user_ids, login_attempts, uuids, creds>>

\* the expiry test, generate_access_token and RefreshTokenRepository::delete
RefreshDelete(w, f) ==
    /\ pc[w] = "r_delete"
    /\ LET old_token == loc[w].old_token
       IN  IF old_token.expires_at < now
           THEN /\ Return(w, Err("RefreshTokenExpired"))
                /\ UNCHANGED <<refresh_tokens, obs>>
           ELSE /\ obs' = [obs EXCEPT ![w] =
                              Call(@, "refresh_tokens.delete", f)]
                /\ refresh_tokens' =
                       IF f = "ok" THEN delete(old_token.id)
                                   ELSE refresh_tokens
                /\ Continue(w, "r_create",
                            [old_token |-> old_token,
                             access_token |->
                                 generate_access_token(old_token.user_id),
                             deleted |-> (f = "ok")])
    /\ UNCHANGED <<now, ticks, users, user_ids, login_attempts, uuids, creds>>

\* Uuid::new_v4, PasswordManager::hash, RefreshTokenRepository::create and
\* the response
RefreshCreate(w, salt, f) ==
    /\ pc[w] = "r_create"
    /\ LET old_token == loc[w].old_token
           new_refresh_token_str == UuidString(uuids + 1)
           new_refresh_token_hash == Hash(salt, new_refresh_token_str)
           cred == NewCred(old_token.user_id, new_refresh_token_str,
                           new_refresh_token_hash,
                           creds[old_token.id].session, "refresh",
                           loc[w].access_token)
       IN  IF f # "ok"
           THEN /\ Return(w, Err(IF f = "hash" THEN "PasswordHashingFailed"
                                               ELSE "DatabaseError"))
                /\ obs' = [obs EXCEPT ![w] =
                              IF f = "hash" THEN @
                              ELSE Call(@, "refresh_tokens.create", f)]
                /\ creds' = [creds EXCEPT ![old_token.id].broken =
                                              @ \/ loc[w].deleted]
                /\ UNCHANGED <<refresh_tokens, uuids>>
           ELSE    /\ uuids' = uuids + 1
                   /\ obs' = [obs EXCEPT ![w] =
                                 Call(@, "refresh_tokens.create", f)]
                   /\ refresh_tokens' = refresh_tokens \cup
                          {NewRefreshToken(uuids + 1, old_token.user_id,
                                           new_refresh_token_hash,
                                           RefreshExpiry)}
                   /\ creds' = Append(
                          [creds EXCEPT ![old_token.id].spent = @ + 1],
                          [cred EXCEPT !.issued = TRUE])
                   /\ Return(w, [ok |-> TRUE, err |-> "none",
                                 access_token |-> loc[w].access_token,
                                 expires_in |-> JWT_EXPIRATION_HOURS * 3600,
                                 refresh_token_hash |-> new_refresh_token_hash])
    /\ UNCHANGED <<now, ticks, users, user_ids, login_attempts>>

(***************************************************************************)
(* AuthService::logout                                                     *)
(***************************************************************************)
\* a logout that also clears the attempt records of the account
LogoutPurging(w, user_id, f) ==
    /\ Free(w)
    /\ obs' = [obs EXCEPT ![w] =
                  [op |-> "logout", user_id |-> user_id,
                   calls |-> <<<<"delete_by_user", f>>>>]]
    /\ refresh_tokens' = delete_by_user(user_id)
    /\ login_attempts' =
           [a \in {b \in BagToSet(login_attempts) : b.user_id # user_id}
               |-> CopiesIn(a, login_attempts)]
    /\ Return(w, [ok |-> TRUE, err |-> "none"])
    /\ UNCHANGED <<now, ticks, users, user_ids, uuids, creds>>

Logout(w, user_id, f) ==
    /\ Free(w)
    /\ obs' = [obs EXCEPT ![w] =
                  [op |-> "logout", user_id |-> user_id,
                   calls |-> <<<<"delete_by_user", f>>>>]]
    /\ IF Failed(f)
       THEN Return(w, Err("DatabaseError")) /\ UNCHANGED <<refresh_tokens, creds>>
       ELSE /\ refresh_tokens' = delete_by_user(user_id)
            /\ creds' = [n \in CredIds |->
                            IF creds[n].user_id = user_id /\ creds[n].issued
                            THEN [creds[n] EXCEPT !.revoked = TRUE]
                            ELSE creds[n]]
            /\ Return(w, [ok |-> TRUE, err |-> "none"])
    /\ UNCHANGED <<now, ticks, users, user_ids, login_attempts, uuids>>

(***************************************************************************)
(* AuthService::change_password                                            *)
(***************************************************************************)
ChangePasswordRequest(old_password, new_password) ==
    [old_password |-> old_password, new_password |-> new_password]

\* a lookup that hides an account that is locked out
find_by_id_unlocked(id) ==
    {u \in users :
        /\ u.id = id
        /\ count_failed_attempts(id, LOCKOUT_WINDOW_MINUTES)
               < MAX_FAILED_ATTEMPTS}

\* UserRepository::find_by_id
find_by_id(id) == {u \in users : u.id = id}

\* an update of the password that writes nothing
update_password_nothing(id, new_password_hash) == users

\* UserRepository::update_password
update_password(id, new_password_hash) ==
    {IF u.id = id THEN [u EXCEPT !.password_hash = new_password_hash] ELSE u :
        u \in users}

\* What holds of a ChangePassword call when it starts.
ObserveChange(user_id, change_password_request) ==
    [op |-> "change",
     user_id |-> user_id,
     old_password |-> change_password_request.old_password,
     new_password |-> change_password_request.new_password,
     before |-> Before,
     calls |-> <<>>]

\* the strength test, UserRepository::find_by_id and PasswordManager::verify
ChangeFind(w, user_id, change_password_request, f) ==
    /\ Free(w)
    /\ LET seen == ObserveChange(user_id, change_password_request)
       IN  IF ~is_strong_password(change_password_request.new_password)
           THEN /\ Return(w, Err("WeakPassword"))
                /\ obs' = [obs EXCEPT ![w] = seen]
           ELSE /\ obs' = [obs EXCEPT ![w] = Call(seen, "find_by_id", f)]
                /\ IF Failed(f)
                   THEN Return(w, Err("DatabaseError"))
                   ELSE IF find_by_id(user_id) = {}
                   THEN Return(w, Err("NotFound"))
                   ELSE LET user == CHOOSE u \in find_by_id(user_id) : TRUE
                        IN  IF user.password_hash = NoHash
                            THEN Return(w, Err("DatabaseError"))
                            ELSE IF ~IsBcrypt(user.password_hash)
                            THEN Return(w, Err("PasswordHashingFailed"))
                            ELSE IF ~Verify(
                                     change_password_request.old_password,
                                     user.password_hash)
                            THEN Return(w, Err("InvalidPassword"))
                            ELSE Start(w, change_password_request, "c_update",
                                       [user_id |-> user_id])
    /\ UNCHANGED <<now, ticks, store, creds>>

\* a change of password that revokes the refresh tokens of the account
ChangeUpdateRevoking(w, salt, f) ==
    /\ pc[w] = "c_update"
    /\ obs' = [obs EXCEPT ![w] = Call(@, "update_password", f)]
    /\ users' = update_password(loc[w].user_id,
                                Hash(salt, req[w].new_password))
    /\ refresh_tokens' = delete_by_user(loc[w].user_id)
    /\ Return(w, [ok |-> TRUE, err |-> "none"])
    /\ UNCHANGED <<now, ticks, user_ids, login_attempts, uuids, creds>>

\* PasswordManager::hash and UserRepository::update_password
ChangeUpdate(w, salt, f) ==
    /\ pc[w] = "c_update"
    /\ IF f = "hash"
       THEN /\ Return(w, Err("PasswordHashingFailed"))
            /\ UNCHANGED <<users, obs>>
       ELSE /\ obs' = [obs EXCEPT ![w] = Call(@, "update_password", f)]
            /\ IF Failed(f)
               THEN Return(w, Err("DatabaseError")) /\ UNCHANGED users
               ELSE /\ users' = update_password(
                                    loc[w].user_id,
                                    Hash(salt, req[w].new_password))
                    /\ Return(w, [ok |-> TRUE, err |-> "none"])
    /\ UNCHANGED <<now, ticks, user_ids, refresh_tokens, login_attempts,
                   uuids, creds>>

(***************************************************************************)
(* AuthService::delete_user                                                *)
(***************************************************************************)
\* What the foreign keys of refresh_tokens and login_attempts on users do
\* when an account that has such rows is deleted.
ForeignKeys == {"cascade", "restrict"}

\* UserRepository::delete
DeleteUser(w, user_id, foreign_key, f) ==
    /\ Free(w)
    /\ obs' = [obs EXCEPT ![w] =
                  [op |-> "delete", user_id |-> user_id, before |-> Before,
                   calls |-> <<<<"users.delete", f>>>>]]
    /\ LET referenced ==
               \/ \E t \in refresh_tokens : t.user_id = user_id
               \/ \E a \in BagToSet(login_attempts) : a.user_id = user_id
           kept == {a \in BagToSet(login_attempts) : a.user_id # user_id}
       IN  IF Failed(f) \/ (referenced /\ foreign_key = "restrict")
           THEN /\ Return(w, Err("DatabaseError"))
                /\ UNCHANGED <<users, refresh_tokens, login_attempts>>
           ELSE /\ users' = {u \in users : u.id # user_id}
                /\ refresh_tokens' = delete_by_user(user_id)
                /\ login_attempts' =
                       [a \in kept |-> CopiesIn(a, login_attempts)]
                /\ Return(w, [ok |-> TRUE, err |-> "none"])
    /\ UNCHANGED <<now, ticks, user_ids, uuids, creds>>

(***************************************************************************)
(* JwtManager::verify_token, as the protected routes call it               *)
(***************************************************************************)
VerifyToken(w, token) ==
    /\ Free(w)
    /\ obs' = [obs EXCEPT ![w] =
                  [op |-> "verify", token |-> token, at |-> now,
                   before |-> Before, calls |-> <<>>]]
    /\ Return(w, verify_token(token))
    /\ UNCHANGED <<now, ticks, store, creds>>

(***************************************************************************)
(* LoginAttemptRepository::count_failed_attempts, called on its own        *)
(***************************************************************************)
CountFailedAttempts(w, user_id, minutes) ==
    /\ Free(w)
    /\ obs' = [obs EXCEPT ![w] =
                  [op |-> "count", user_id |-> user_id, minutes |-> minutes,
                   at |-> now, before |-> Before,
                   calls |-> <<<<"count_failed_attempts", "ok">>>>]]
    /\ Return(w, [ok |-> TRUE, err |-> "none",
                  count |-> count_failed_attempts(user_id, minutes)])
    /\ UNCHANGED <<now, ticks, store, creds>>

(***************************************************************************)
(* PasswordManager::hash and PasswordManager::verify, called on their own  *)
(***************************************************************************)
\* The salts of the hashes that workers other than w hold.
SaltsHeld(w) ==
    {res[v].hash[2] : v \in {x \in Workers \ {w} : obs[x].op = "hash"}}

HashPassword(w, password, salt) ==
    /\ Free(w)
    /\ salt \notin SaltsHeld(w)
    /\ obs' = [obs EXCEPT ![w] =
                  [op |-> "hash", password |-> password, calls |-> <<>>]]
    /\ Return(w, [ok |-> TRUE, err |-> "none", hash |-> Hash(salt, password)])
    /\ UNCHANGED <<now, ticks, store, creds>>

\* The hashes verify is called with: the hash a worker holds, with the
\* password it was made from, or a string that is no hash.
HashesHeld ==
    {[hash |-> res[v].hash, password |-> obs[v].password] :
        v \in {x \in Workers : obs[x].op = "hash"}}
        \cup {[hash |-> Garbage, password |-> Garbage]}

VerifyPassword(w, password, h) ==
    /\ Free(w)
    /\ obs' = [obs EXCEPT ![w] =
                  [op |-> "verify_password", password |-> password,
                   hash |-> h.hash, hashed |-> h.password,
                   calls |-> <<>>]]
    /\ IF ~IsBcrypt(h.hash)
       THEN Return(w, Err("VerificationFailed"))
       ELSE Return(w, [ok |-> TRUE, err |-> "none",
                       matches |-> Verify(password, h.hash)])
    /\ UNCHANGED <<now, ticks, store, creds>>

\* The clock, as the logins inside one lockout window see it.
WindowTick ==
    /\ now + 1 < LOCKOUT_WINDOW_MINUTES
    /\ now' = now + 1
    /\ ticks' = ticks + 1
    /\ UNCHANGED <<store, pc, req, loc, res, obs, creds>>

\* The clock, as the access tokens see it.
TokenTick ==
    /\ \E d \in TokenTickSteps : now' = now + d
    /\ ticks' = ticks + 1
    /\ UNCHANGED <<store, pc, req, loc, res, obs, creds>>

(***************************************************************************)
(* A worker stops in the middle of its call (the process is killed).      *)
(***************************************************************************)
Crash(w) ==
    /\ ~Free(w)
    /\ Return(w, Err("Crashed"))
    /\ creds' = IF pc[w] = "r_create" /\ loc[w].deleted
                THEN [creds EXCEPT ![loc[w].old_token.id].broken = TRUE]
                ELSE creds
    /\ UNCHANGED <<now, ticks, store, obs>>

(***************************************************************************)
(* What a caller may present as a refresh credential: nothing, something  *)
(* it made up, or the secret or the hash of a credential that a call has  *)
(* returned.                                                               *)
(***************************************************************************)
Presentable ==
    {EmptyString, Garbage}
        \cup {creds[n].secret : n \in {m \in CredIds : creds[m].issued}}
        \cup {creds[n].hash : n \in {m \in CredIds : creds[m].issued}}

UserIds == 1 .. MaxUsers

\* The access tokens that calls have returned.
IssuedTokens ==
    {creds[n].access_token : n \in {m \in CredIds : creds[m].issued}}

\* What a caller may present as an access token: a token that a call has
\* returned, such a token with its expiry moved forward, or such a token
\* signed with another key.
PresentableTokens ==
    IssuedTokens
        \cup {[t EXCEPT !.exp = @ + JWT_EXPIRATION_HOURS * 60] :
                 t \in IssuedTokens}
        \cup {[t EXCEPT !.mac = Mac(OtherSecret, t.sub, t.exp, t.iat)] :
                 t \in IssuedTokens}

NoFault == {"ok"}
StoreFaults == {"ok", "db"}
Faults == {"ok", "db", "hash"}

\* The steps of worker w; F says how its store calls and H how its calls of
\* the hashing may end.
RegisterStepOf(w, R, F, H) ==
    \/ \E r \in R, f \in F : RegisterFind(w, r, f)
    \/ \E s \in Salts, f \in H : RegisterCreate(w, s, f)

RegisterStep(w, F, H) == RegisterStepOf(w, RegisterRequests, F, H)

LoginStepOf(w, E, P, F, H) ==
    \/ \E e \in E, p \in P, a \in UserAgents, f \in F :
           LoginFind(w, LoginRequest(e, p, a), f)
    \/ \E f \in F : LoginUnknown(w, f)
    \/ \E f \in F : LoginCount(w, f)
    \/ \E f \in F : LoginReject(w, f)
    \/ \E s \in Salts, f \in H : LoginCreate(w, s, f)
    \/ \E f \in F : LoginUpdate(w, f)
    \/ \E f \in F : LoginRecord(w, f)

LoginStep(w, F, H) == LoginStepOf(w, Emails, Passwords, F, H)

RefreshStep(w, F, H) ==
    \/ \E t \in Presentable, f \in F :
           RefreshFind(w, RefreshTokenRequest(t), f)
    \/ \E f \in F : RefreshDelete(w, f)
    \/ \E s \in Salts, f \in H : RefreshCreate(w, s, f)

LogoutStep(w, F) == \E u \in UserIds, f \in F : Logout(w, u, f)

\* Register calls that share an email or a username with another one.
AccountRequests ==
    RegisterRequests \cup {RegisterRequest(EmailB, Alice, PassA)}

AccountIds == 1 .. AccountUsers

AccountRegisterStep(w) ==
    \/ \E r \in AccountRequests : RegisterFind(w, r, "ok")
    \/ \E s \in Salts : RegisterCreate(w, s, "ok")

\* The steps of a ChangePassword call of worker w for an account of U.
ChangeStepOf(w, U, F, H) ==
    \/ \E u \in U, o \in Passwords,
          n \in Passwords \cup {PassWeak}, f \in F :
           ChangeFind(w, u, ChangePasswordRequest(o, n), f)
    \/ \E s \in Salts, f \in H : ChangeUpdate(w, s, f)

ChangeStep(w, F, H) == ChangeStepOf(w, AccountIds, F, H)

\* The next state stays inside the bounds.
Within(max_ticks, max_users, max_tokens, max_attempts) ==
    /\ ticks' <= max_ticks
    /\ user_ids' <= max_users
    /\ uuids' <= max_tokens
    /\ BagCardinality(login_attempts') <= max_attempts

Bounded == Within(MaxTicks, MaxUsers, MaxTokens, MaxAttempts)

\* Sequential execution, the store never fails: one worker serves one call
\* after the other.
Next ==
    \/ Tick /\ Bounded
    \/ RegisterStep(1, NoFault, NoFault) /\ Bounded
    \/ LoginStep(1, NoFault, NoFault) /\ Bounded
    \/ RefreshStep(1, NoFault, NoFault) /\ Bounded
    \/ LogoutStep(1, NoFault) /\ Bounded

Spec == Init /\ [][Next]_vars

\* Sequential execution of Register and Login, far enough to lock an account.
LockoutBounded ==
    Within(LockoutTicks, LockoutUsers, LockoutTokens, LockoutAttempts)

LockoutNext ==
    \/ Tick /\ LockoutBounded
    \/ RegisterStep(1, NoFault, NoFault) /\ LockoutBounded
    \/ LoginStep(1, NoFault, NoFault) /\ LockoutBounded

LockoutSpec == Init /\ [][LockoutNext]_vars

\* Sequential execution at one instant; a store call or the hashing may fail,
\* and the worker may stop in the middle of a call.
FaultBounded == Within(0, FaultUsers, FaultTokens, FaultAttempts)

FaultNext ==
    \/ RegisterStep(1, StoreFaults, Faults) /\ FaultBounded
    \/ LoginStep(1, StoreFaults, Faults) /\ FaultBounded
    \/ RefreshStep(1, StoreFaults, Faults) /\ FaultBounded
    \/ LogoutStep(1, StoreFaults) /\ FaultBounded
    \/ Crash(1)

FaultSpec == Init /\ [][FaultNext]_vars

\* Sequential execution of all five operations at one instant; a store call
\* or the hashing may fail.
StorageBounded == Within(0, StorageUsers, StorageTokens, StorageAttempts)

StorageNext ==
    \/ RegisterStep(1, StoreFaults, Faults) /\ StorageBounded
    \/ LoginStep(1, StoreFaults, Faults) /\ StorageBounded
    \/ RefreshStep(1, StoreFaults, Faults) /\ StorageBounded
    \/ LogoutStep(1, StoreFaults) /\ StorageBounded
    \/ ChangeStepOf(1, UserIds, StoreFaults, Faults) /\ StorageBounded

StorageSpec == Init /\ [][StorageNext]_vars

\* Concurrent execution at one instant, the store never fails: worker 1
\* serves every kind of call, and the other workers serve RefreshToken and
\* Logout calls whose store calls interleave with those of worker 1.
ConcBounded == Within(0, MaxUsers, MaxTokens, MaxAttempts)

ConcNext ==
    \/ RegisterStep(1, NoFault, NoFault) /\ ConcBounded
    \/ LoginStep(1, NoFault, NoFault) /\ ConcBounded
    \/ \E w \in Workers : RefreshStep(w, NoFault, NoFault) /\ ConcBounded
    \/ \E w \in Workers : LogoutStep(w, NoFault) /\ ConcBounded

ConcSpec == Init /\ [][ConcNext]_vars

\* Accounts at one instant, the store never fails: one worker serves
\* Register, Login and ChangePassword calls one after the other.
AccountBounded ==
    Within(0, AccountUsers, AccountTokens, AccountAttempts)

AccountNext ==
    \/ AccountRegisterStep(1) /\ AccountBounded
    \/ LoginStep(1, NoFault, NoFault) /\ AccountBounded
    \/ ChangeStep(1, NoFault, NoFault) /\ AccountBounded

AccountSpec == Init /\ [][AccountNext]_vars

\* Sessions of two accounts at one instant, the store never fails: one worker
\* serves the five operations one after the other.
SessionBounded ==
    Within(0, AccountUsers, SessionTokens, AccountAttempts)

SessionNext ==
    \/ AccountRegisterStep(1) /\ SessionBounded
    \/ LoginStep(1, NoFault, NoFault) /\ SessionBounded
    \/ RefreshStep(1, NoFault, NoFault) /\ SessionBounded
    \/ (\E u \in AccountIds : Logout(1, u, "ok")) /\ SessionBounded
    \/ ChangeStep(1, NoFault, NoFault) /\ SessionBounded

SessionSpec == Init /\ [][SessionNext]_vars

\* Access tokens over time, the store never fails: one worker serves the
\* five operations, the deletion of accounts and the verification of access
\* tokens one after the other.
TokenBounded ==
    Within(TokenTicks, StorageUsers, StorageTokens, StorageAttempts)

TokenNext ==
    \/ TokenTick /\ TokenBounded
    \/ RegisterStep(1, NoFault, NoFault) /\ TokenBounded
    \/ LoginStep(1, NoFault, NoFault) /\ TokenBounded
    \/ RefreshStep(1, NoFault, NoFault) /\ TokenBounded
    \/ LogoutStep(1, NoFault) /\ TokenBounded
    \/ ChangeStepOf(1, UserIds, NoFault, NoFault) /\ TokenBounded
    \/ (\E u \in UserIds, k \in ForeignKeys : DeleteUser(1, u, k, "ok"))
           /\ TokenBounded
    \/ (\E t \in PresentableTokens : VerifyToken(1, t)) /\ TokenBounded

TokenSpec == Init /\ [][TokenNext]_vars

\* The ledger of attempts over time, the store never fails: one worker serves
\* Register and Login calls one after the other and counts the failed
\* attempts of an account.
LedgerBounded ==
    Within(LedgerTicks, AccountUsers, AccountTokens, AccountAttempts)

LedgerNext ==
    \/ Tick /\ LedgerBounded
    \/ AccountRegisterStep(1) /\ LedgerBounded
    \/ LoginStep(1, NoFault, NoFault) /\ LedgerBounded
    \/ (\E u \in AccountIds : 
           CountFailedAttempts(1, u, LOCKOUT_WINDOW_MINUTES))
           /\ LedgerBounded

LedgerSpec == Init /\ [][LedgerNext]_vars

\* Concurrent logins to one account over time, the store never fails: every
\* worker serves Login calls for the account of worker 1's Register call, and
\* their store calls interleave; worker 1 logs in with either password, the
\* other workers with the wrong one.
ContentionBounded ==
    Within(ContentionTicks, ContentionUsers, ContentionTokens,
           ContentionAttempts)

ContentionNext ==
    \/ Tick /\ ContentionBounded
    \/ RegisterStepOf(1, {RegisterRequest(EmailA, Alice, PassA)},
                      NoFault, NoFault) /\ ContentionBounded
    \/ LoginStepOf(1, {EmailA}, Passwords, NoFault, NoFault)
           /\ ContentionBounded
    \/ (\E w \in Workers \ {1} :
           LoginStepOf(w, {EmailA}, {PassB}, NoFault, NoFault))
           /\ ContentionBounded

ContentionSpec == Init /\ [][ContentionNext]_vars

\* Logins to two accounts inside one lockout window, the store never fails:
\* one worker serves Register and Login calls one after the other.
FailureBounded ==
    Within(FailureTicks, FailureUsers, FailureTokens, FailureAttempts)

FailureNext ==
    \/ WindowTick /\ FailureBounded
    \/ RegisterStepOf(1, {RegisterRequest(EmailA, Alice, PassA),
                          RegisterRequest(EmailB, Bob, PassB)},
                      NoFault, NoFault) /\ FailureBounded
    \/ LoginStepOf(1, {EmailA, EmailB}, Passwords, NoFault, NoFault)
           /\ FailureBounded

FailureSpec == Init /\ [][FailureNext]_vars

(***************************************************************************)
(* The protected routes: the extractor AuthClaims and the handlers logout, *)
(* change_password and delete_user.  A header value is a sequence of       *)
(* characters; the text of a token is one element of it.                   *)
(***************************************************************************)
BEARER == <<"B", "e", "a", "r", "e", "r", " ">>
LowerBearer == <<"b", "e", "a", "r", "e", "r", " ">>
Basic == <<"B", "a", "s", "i", "c", " ">>

\* a byte that is not visible ASCII
Opaque == "0xFF"

\* encode: the text of a token
encode(token) == <<ToString(token)>>

\* HeaderValue::to_str succeeds
to_str_ok(value) == \A i \in DOMAIN value : value[i] # Opaque

\* a test of the scheme that every header passes
starts_with_any(s, prefix) == TRUE

\* str::starts_with
starts_with(s, prefix) ==
    /\ Len(s) >= Len(prefix)
    /\ SubSeq(s, 1, Len(prefix)) = prefix

\* JwtManager::verify_token on the text of the header: decode parses the
\* text and verifies the token it encodes.
verify_token_str(text) ==
    LET coded == {t \in PresentableTokens : encode(t) = text}
    IN  IF coded = {} THEN Err("InvalidToken")
        ELSE verify_token(CHOOSE t \in coded : TRUE)

\* AuthClaims::from_request_parts; headers holds the value of the
\* Authorization header, if the request has one.
from_request_parts(headers) ==
    IF headers = {} THEN Err("InvalidTokenFormat")
    ELSE LET auth_header == CHOOSE h \in headers : TRUE
         IN  IF ~to_str_ok(auth_header) THEN Err("InvalidTokenFormat")
             ELSE IF ~starts_with(auth_header, BEARER)
             THEN Err("InvalidTokenFormat")
             ELSE LET token == SubSeq(auth_header, Len(BEARER) + 1,
                                      Len(auth_header))
                      verified == verify_token_str(token)
                  IN  IF verified.ok THEN verified
                      ELSE Err("UnauthorizedAction")

\* AppError::get_error_info: the HTTP status of an error
status_code(err) ==
    CASE err = "NotFound" -> 404
      [] err \in {"Duplicate", "UserAlreadyExists"} -> 409
      [] err \in {"InvalidPassword", "InvalidRefreshToken",
                  "UnauthorizedAction"} -> 401
      [] err \in {"RefreshTokenExpired", "InvalidEmail", "WeakPassword",
                  "InvalidTokenFormat"} -> 400
      [] err = "TooManyAttempts" -> 429
      [] err \in {"PasswordHashingFailed", "TokenGenerationFailed",
                  "DatabaseError"} -> 500

\* The HTTP status of the response of a route whose handler returned r.
Status(route, r) ==
    IF ~r.ok THEN status_code(r.err)
    ELSE IF route = "delete_user" THEN 204
    ELSE 200

\* a test of the subject that every subject passes
SameSubjectAny(claims, user_id) == TRUE

\* claims.sub != user_id, negated
SameSubject(claims, user_id) == claims.sub = user_id

\* The extractor and, for a route with an account id in its path, the test
\* of the subject: the part of a handler that comes before its service call.
Extract(w, route, user_id, headers) ==
    /\ Free(w)
    /\ obs' = [obs EXCEPT ![w] =
                  [op |-> "extract", route |-> route, user_id |-> user_id,
                   headers |-> headers, at |-> now, before |-> Before,
                   calls |-> <<>>]]
    /\ LET auth == from_request_parts(headers)
       IN  IF ~auth.ok THEN Return(w, auth)
           ELSE IF route # "logout" /\ ~SameSubject(auth.claims, user_id)
           THEN Return(w, Err("UnauthorizedAction"))
           ELSE Return(w, auth)
    /\ UNCHANGED <<now, ticks, store, creds>>

\* The request of worker w on route has passed the extractor and the test of
\* the subject, and its service call is due.
Admitted(w, route) ==
    /\ pc[w] = "done"
    /\ obs[w].op = "extract"
    /\ obs[w].route = route
    /\ res[w].ok

\* handlers::auth::logout
LogoutHandler(w, H, F) ==
    \/ \E h \in H : Extract(w, "logout", None, h)
    \/ /\ Admitted(w, "logout")
       /\ \E f \in F : Logout(w, res[w].claims.sub, f)

\* handlers::user::change_password
ChangePasswordHandler(w, U, H, F) ==
    \/ \E u \in U, h \in H : Extract(w, "change_password", u, h)
    \/ /\ Admitted(w, "change_password")
       /\ \E o \in Passwords, n \in Passwords \cup {PassWeak}, f \in F :
              ChangeFind(w, obs[w].user_id, ChangePasswordRequest(o, n), f)
    \/ \E s \in Salts, f \in F : ChangeUpdate(w, s, f)

\* handlers::user::delete_user
DeleteUserHandler(w, U, H, F) ==
    \/ \E u \in U, h \in H : Extract(w, "delete_user", u, h)
    \/ /\ Admitted(w, "delete_user")
       /\ \E k \in ForeignKeys, f \in F :
              DeleteUser(w, obs[w].user_id, k, f)

\* The Authorization headers of a request: none, a header without a scheme,
\* with the scheme alone, with an opaque byte, with another scheme, and the
\* scheme followed by garbage or by the text of a token.
AuthHeaders ==
    {{}} \cup {{h} : h \in
        {Garbage, BEARER, BEARER \o <<Opaque>>, BEARER \o Garbage}
        \cup {BEARER \o encode(t) : t \in PresentableTokens}
        \cup {s \o encode(t) : s \in {LowerBearer, Basic},
                                t \in IssuedTokens}}

ProtectedIds == 1 .. ProtectedUsers

\* The clock passes the lifetime of an access token and the leeway of its
\* verification.
LapseTick ==
    /\ now' = now + JWT_EXPIRATION_HOURS * 60 + LEEWAY_MINUTES + 1
    /\ ticks' = ticks + 1
    /\ UNCHANGED <<store, pc, req, loc, res, obs, creds>>

\* Two accounts and their access tokens over time, the store never fails:
\* one worker serves Register, Login and the three protected routes.
ProtectedBounded ==
    Within(ProtectedTicks, ProtectedUsers, ProtectedTokens, ProtectedAttempts)

ProtectedNext ==
    \/ LapseTick /\ ProtectedBounded
    \/ RegisterStepOf(1, {RegisterRequest(EmailA, Alice, PassA),
                          RegisterRequest(EmailB, Bob, PassB)},
                      NoFault, NoFault) /\ ProtectedBounded
    \/ LoginStepOf(1, {EmailA, EmailB}, Passwords, NoFault, NoFault)
           /\ ProtectedBounded
    \/ LogoutHandler(1, AuthHeaders, NoFault) /\ ProtectedBounded
    \/ ChangePasswordHandler(1, ProtectedIds, AuthHeaders, NoFault)
           /\ ProtectedBounded
    \/ DeleteUserHandler(1, ProtectedIds, AuthHeaders, NoFault)
           /\ ProtectedBounded

ProtectedSpec == Init /\ [][ProtectedNext]_vars

\* One account at one instant, the store never fails: one worker serves the
\* five operations one after the other, far enough to lock the account and
\* go on.
ImmuneBounded == Within(0, ImmuneUsers, ImmuneTokens, ImmuneAttempts)

ImmuneNext ==
    \/ RegisterStepOf(1, {RegisterRequest(EmailA, Alice, PassA)},
                      NoFault, NoFault) /\ ImmuneBounded
    \/ LoginStepOf(1, {EmailA}, Passwords, NoFault, NoFault)
           /\ ImmuneBounded
    \/ RefreshStep(1, NoFault, NoFault) /\ ImmuneBounded
    \/ LogoutStep(1, NoFault) /\ ImmuneBounded
    \/ ChangeStepOf(1, UserIds, NoFault, NoFault) /\ ImmuneBounded

ImmuneSpec == Init /\ [][ImmuneNext]_vars

\* The password functions on their own: every worker hashes and verifies.
PasswordNext ==
    \/ \E w \in Workers, p \in PasswordInputs, s \in PasswordSalts :
           HashPassword(w, p, s)
    \/ \E w \in Workers, p \in PasswordInputs, h \in HashesHeld :
           VerifyPassword(w, p, h)

PasswordSpec == Init /\ [][PasswordNext]_vars

\* Concurrent registration at one instant, the store never fails: every
\* worker serves Register calls, whose store calls interleave, and worker 1
\* serves ChangePassword calls as well.
RaceBounded == Within(0, AccountUsers, 0, 0)

RaceNext ==
    \/ \E w \in Workers : AccountRegisterStep(w) /\ RaceBounded
    \/ ChangeStep(1, NoFault, NoFault) /\ RaceBounded

RaceSpec == Init /\ [][RaceNext]_vars

(***************************************************************************)
(* Properties.                                                             *)
(***************************************************************************)
\* A RefreshToken call of worker w has returned.
RefreshDone(w) == obs[w].op = "refresh" /\ pc[w] = "done"

\* A Login call of worker w has returned.
LoginDone(w) == obs[w].op = "login" /\ pc[w] = "done"

\* The credential worker w presented is the stored hash of some credential.
PresentedHash(w) == \E n \in CredIds : obs[w].token = creds[n].hash

\* The credential worker w presented is one that a Login or a RefreshToken
\* call returned to its caller.
PresentedIssued(w) ==
    \E n \in CredIds : creds[n].issued /\ obs[w].token = creds[n].hash

\* C1: a Login call that counts at least MAX_FAILED_ATTEMPTS failed attempts
\* of the account inside the lockout window returns TooManyAttempts whatever
\* the password, and creates neither an access token nor a refresh token.
LockoutBeforePassword ==
    \A w \in Workers :
        (obs[w].op = "login" /\ obs[w].counted /\ obs[w].saw_locked)
            => /\ pc[w] = "done"
               /\ res[w] = Err("TooManyAttempts")
               /\ obs[w].created = 0

\* a sixth login with the correct password inside the window was refused,
\* and the account never obtained a refresh token
LockedWithCorrectPassword ==
    /\ LoginDone(1)
    /\ obs[1].password_ok
    /\ obs[1].saw_locked
    /\ res[1] = Err("TooManyAttempts")
    /\ BagCardinality(login_attempts) = MAX_FAILED_ATTEMPTS
    /\ \A a \in BagToSet(login_attempts) : ~a.success /\ a.user_id = 1
    /\ refresh_tokens = {}

\* C2: in sequential execution the first RefreshToken call with a credential
\* Login issued succeeds, and a later call with a credential that a rotation
\* has consumed returns InvalidRefreshToken.
RotationSingleUse ==
    obs[1].op = "refresh" =>
        /\ obs[1].was_spent =>
               pc[1] = "done" /\ res[1] = Err("InvalidRefreshToken")
        /\ (obs[1].login_cookie /\ pc[1] = "done" /\ now = obs[1].at) =>
               res[1].ok

\* the second call with the same credential was refused
SecondRefreshRefused ==
    /\ RefreshDone(1)
    /\ obs[1].was_spent
    /\ res[1] = Err("InvalidRefreshToken")
    /\ \E n \in CredIds :
           /\ creds[n].by = "login" /\ creds[n].spent = 1
           /\ obs[1].token = creds[n].hash

\* C3: a RefreshToken call that presents the refresh secret a Login returned
\* in the refresh_token field of its result, while the row of that login is
\* stored and has not expired, succeeds.
LoginSecretAccepted ==
    (RefreshDone(1) /\ obs[1].login_secret /\ now = obs[1].at) => res[1].ok

\* C4: no RefreshToken call that presents a value of the token_hash column
\* succeeds.
StoredHashRefused ==
    \A w \in Workers : (RefreshDone(w) /\ PresentedHash(w)) => ~res[w].ok

\* C5: a RefreshToken call that presents a credential issued to an account
\* before a Logout of that account completed returns InvalidRefreshToken.
LogoutRevokes ==
    \A w \in Workers :
        (obs[w].op = "refresh" /\ obs[w].was_revoked)
            => pc[w] = "done" /\ res[w] = Err("InvalidRefreshToken")

\* a credential that a rotation issued was refused after the logout of its
\* account
RevokedCredentialRefused ==
    \E w \in Workers :
        /\ RefreshDone(w)
        /\ obs[w].was_revoked
        /\ res[w] = Err("InvalidRefreshToken")
        /\ \E n \in CredIds :
               /\ creds[n].by = "refresh" /\ creds[n].revoked
               /\ obs[w].token = creds[n].hash

\* C6: two RefreshToken calls that present the same credential and overlap
\* in time do not both succeed.
ConcurrentRefreshExclusive ==
    \A v, w \in Workers :
        (/\ v # w
         /\ RefreshDone(v) /\ RefreshDone(w)
         /\ obs[v].token = obs[w].token
         /\ PresentedIssued(w)
         /\ obs[w].overlap)
            => ~(res[v].ok /\ res[w].ok)

\* C7: when store calls may fail, a RefreshToken call that presents a
\* credential which an earlier successful call consumed does not succeed.
SpentCredentialRefused ==
    (RefreshDone(1) /\ PresentedIssued(1) /\ obs[1].was_spent) => ~res[1].ok

\* C8: a RefreshToken call that presents a credential whose stored row has
\* an expires_at earlier than the current time returns RefreshTokenExpired.
ExpiredReported ==
    (RefreshDone(1) /\ PresentedIssued(1) /\ obs[1].saw_expired)
        => res[1] = Err("RefreshTokenExpired")

\* C9: find_by_hash returns a row only if its expires_at is later than the
\* current time, whatever rows the table holds, and no RefreshToken call
\* goes on after the lookup with a row that has expired.
LookupSkipsExpired ==
    /\ \A t \in refresh_tokens :
           \A r \in find_by_hash(t.token_hash) : r.expires_at > now
    /\ \A w \in Workers : obs[w].op = "refresh" => ~obs[w].found_expired

\* a row with the hash presented is stored, has expired, and the lookup of
\* the call did not return it
ExpiredRowSkipped ==
    /\ RefreshDone(1)
    /\ obs[1].saw_expired
    /\ now = obs[1].at
    /\ res[1] = Err("InvalidRefreshToken")
    /\ \E t \in refresh_tokens :
           t.token_hash = obs[1].token /\ t.expires_at < now
    /\ find_by_hash(obs[1].token) = {}

\* C10: once a rotation of a session has deleted the old row and stopped
\* before it created the new one, no RefreshToken call that presents a
\* credential of that session succeeds.
BrokenSessionRefused ==
    (RefreshDone(1) /\ res[1].ok)
        => ~\E n, m \in CredIds :
               /\ creds[n].broken
               /\ creds[m].session = creds[n].session
               /\ creds[m].issued
               /\ obs[1].token = creds[m].hash

\* A Register call of worker w has returned.
RegisterDone(w) == obs[w].op = "register" /\ pc[w] = "done"

\* C11: a Register call with a strong password for an email that an earlier
\* Register call has registered fails with UserAlreadyExists, creates no
\* account and leaves the accounts as they were; a Register call that
\* succeeds found its email free.
SameEmailRefused ==
    \A w \in Workers :
        RegisterDone(w) =>
            /\ obs[w].email_taken
                   /\ is_strong_password(obs[w].request.password)
               => /\ res[w] = Err("UserAlreadyExists")
                  /\ users = obs[w].before.users
            /\ res[w].ok => ~obs[w].email_taken

SecondRegisterRefused ==
    /\ RegisterDone(1)
    /\ obs[1].email_taken
    /\ res[1] = Err("UserAlreadyExists")
    /\ \E u \in users :
           u.email = obs[1].request.email /\ u \in obs[1].before.users

\* C12: no two stored accounts share an email, and no two share a username.
AccountsUnique ==
    \A u, v \in users :
        u # v => u.email # v.email /\ u.username # v.username

\* Two Register calls for one email both found it free, and the insert of
\* the second one was rejected.
ConcurrentRegisterRejected ==
    /\ RegisterDone(1) /\ RegisterDone(2)
    /\ obs[1].request.email = obs[2].request.email
    /\ Len(obs[1].calls) = 2 /\ Len(obs[2].calls) = 2
    /\ ~obs[1].email_taken /\ ~obs[2].email_taken
    /\ res[1].ok /\ res[2] = Err("Duplicate")
    /\ Cardinality(users) = 1

\* The failures of the taxonomy, by the names of their AppError variants:
\* HashingFailure is PasswordHashingFailed, TokenVerificationFailure is
\* InvalidTokenFormat and StorageFailure is DatabaseError.
Taxonomy ==
    {"InvalidEmail", "WeakPassword", "UserAlreadyExists", "NotFound",
     "InvalidPassword", "InvalidRefreshToken", "RefreshTokenExpired",
     "TooManyAttempts", "PasswordHashingFailed", "InvalidTokenFormat",
     "DatabaseError"}

\* C13: every failure a call returns is an entry of the taxonomy, also when
\* the store rejects the insert of an account with a unique-key violation.
FailuresClassified ==
    \A w \in Workers :
        pc[w] = "done" /\ ~res[w].ok => res[w].err \in Taxonomy

\* C14: when a Login has succeeded, the store differs from the store the
\* call found in exactly this: one more refresh token, owned by the account
\* and expiring 7 days after an instant of the call; the last login of the
\* account, set to an instant of the call; one more attempt record, of the
\* account and successful.  The access token returned names the account.
LoginEffects ==
    \A w \in Workers :
        LoginDone(w) /\ res[w].ok =>
            LET before == obs[w].before
                during == obs[w].at .. now
                created == refresh_tokens \ before.refresh_tokens
                old_user == CHOOSE u \in before.users : u.email = obs[w].email
                new_user == CHOOSE u \in users : u.id = old_user.id
            IN  /\ res[w].user = old_user.id
                /\ res[w].access_token.sub = old_user.id
                /\ before.refresh_tokens \subseteq refresh_tokens
                /\ Cardinality(created) = 1
                /\ \A t \in created :
                       /\ t.user_id = old_user.id
                       /\ t.expires_at - REFRESH_TOKEN_DAYS * 24 * 60
                              \in during
                /\ new_user.last_login_at \in during
                /\ users = (before.users \ {old_user}) \cup
                       {[old_user EXCEPT
                            !.last_login_at = new_user.last_login_at]}
                /\ \E a \in BagToSet(login_attempts) :
                       /\ a.user_id = old_user.id
                       /\ a.success = TRUE
                       /\ a.attempted_at \in during
                       /\ login_attempts =
                              before.login_attempts (+) SetToBag({a})

\* A Login succeeded for an account that had logged in some time before.
SecondLoginSucceeded ==
    /\ LoginDone(1) /\ res[1].ok
    /\ obs[1].at > 0
    /\ \E t \in obs[1].before.refresh_tokens : t.user_id = res[1].user
    /\ \E a \in BagToSet(obs[1].before.login_attempts) :
           a.user_id = res[1].user /\ a.attempted_at < obs[1].at

\* C15: a Login with a wrong password for an account that is not locked out
\* fails with InvalidPassword; it adds one attempt record, of the account and
\* failed, and changes neither the refresh tokens nor the accounts.
WrongPasswordEffects ==
    \A w \in Workers :
        /\ LoginDone(w)
        /\ obs[w].known /\ ~obs[w].password_ok
        /\ obs[w].counted /\ ~obs[w].saw_locked
        => LET before == obs[w].before
               user == CHOOSE u \in before.users : u.email = obs[w].email
           IN  /\ res[w] = Err("InvalidPassword")
               /\ refresh_tokens = before.refresh_tokens
               /\ users = before.users
               /\ \E a \in BagToSet(login_attempts) :
                      /\ a.user_id = user.id
                      /\ a.success = FALSE
                      /\ a.attempted_at \in obs[w].at .. now
                      /\ login_attempts =
                             before.login_attempts (+) SetToBag({a})

\* A Login with a wrong password was refused for an account that had logged
\* in and had failed to log in before.
WrongPasswordRefused ==
    /\ LoginDone(1)
    /\ res[1] = Err("InvalidPassword")
    /\ \E u \in obs[1].before.users :
           /\ u.email = obs[1].email
           /\ u.last_login_at # None
           /\ \E a \in BagToSet(obs[1].before.login_attempts) :
                  a.user_id = u.id /\ a.success = FALSE

\* How many failed attempt records of the bag attempts name user_id.
FailedRows(attempts, user_id) ==
    LET rows == {a \in BagToSet(attempts) :
                    a.user_id = user_id /\ a.success = FALSE}
    IN  BagCardinality([a \in rows |-> CopiesIn(a, attempts)])

\* C16: a Login with a well-formed email of no account fails with NotFound
\* and adds one attempt record, failed and with a null account id, and
\* nothing else; and a Login finds an account locked only when at least
\* MAX_FAILED_ATTEMPTS failed records name that account, so that the records
\* with a null account id count for no account.
UnknownEmailEffects ==
    \A w \in Workers :
        /\ LoginDone(w) /\ is_valid_email(obs[w].email) /\ ~obs[w].known
           => LET before == obs[w].before
              IN  /\ res[w] = Err("NotFound")
                  /\ refresh_tokens = before.refresh_tokens
                  /\ users = before.users
                  /\ \E a \in BagToSet(login_attempts) :
                         /\ a.user_id = None
                         /\ a.success = FALSE
                         /\ a.attempted_at \in obs[w].at .. now
                         /\ login_attempts =
                                before.login_attempts (+) SetToBag({a})
        /\ obs[w].op = "login" /\ obs[w].counted /\ obs[w].saw_locked
           => \E u \in obs[w].before.users :
                  /\ u.email = obs[w].email
                  /\ FailedRows(login_attempts, u.id) >= MAX_FAILED_ATTEMPTS

\* A Login of an account has passed the lockout test although the ledger
\* holds MAX_FAILED_ATTEMPTS failed records with a null account id, all of
\* them inside the lockout window.
UnknownEmailNotCounted ==
    /\ pc[1] \in {"l_reject", "l_create"}
    /\ obs[1].counted /\ ~obs[1].saw_locked
    /\ FailedRows(login_attempts, None) >= MAX_FAILED_ATTEMPTS
    /\ \A a \in BagToSet(login_attempts) :
           a.attempted_at > now - LOCKOUT_WINDOW_MINUTES

\* The store calls named call that the call of worker w has issued.
Issued(w, call) ==
    {i \in 1 .. Len(obs[w].calls) : obs[w].calls[i][1] = call}

\* The attempt-ledger write of the Login call of worker w failed.
LedgerWriteFailed(w) ==
    /\ LoginDone(w)
    /\ \E i \in Issued(w, "login_attempts.create") :
           Failed(obs[w].calls[i][2])

\* C17: when the attempt-ledger write of a Login fails, the call returns what
\* it returns when the write succeeds: NotFound for an unknown email,
\* InvalidPassword for a wrong password, and otherwise the access token and
\* the refresh credential it has stored; the write was issued once and the
\* ledger is as the call found it.
LedgerBestEffort ==
    \A w \in Workers :
        LedgerWriteFailed(w) =>
            /\ Cardinality(Issued(w, "login_attempts.create")) = 1
            /\ login_attempts = obs[w].before.login_attempts
            /\ IF ~obs[w].known
               THEN res[w] = Err("NotFound")
               ELSE IF ~obs[w].password_ok
               THEN res[w] = Err("InvalidPassword")
               ELSE /\ res[w].ok
                    /\ res[w].access_token.sub = res[w].user
                    /\ \E u \in users :
                           u.id = res[w].user /\ u.email = obs[w].email
                    /\ res[w].refresh_token = creds[obs[w].created].secret
                    /\ creds[obs[w].created].issued
                    /\ \E t \in refresh_tokens :
                           /\ t.id = obs[w].created
                           /\ t.user_id = res[w].user
                           /\ t.token_hash = res[w].refresh_token_hash

\* A Login succeeded although its attempt record could not be written.
LoginSucceededUnrecorded ==
    /\ LedgerWriteFailed(1)
    /\ res[1].ok
    /\ login_attempts = EmptyBag

\* The store calls whose failure the code only logs.
BestEffort == {"login_attempts.create", "refresh_tokens.delete"}

\* C18: when a store call other than the two best-effort ones fails, it is
\* the last store call of the operation, and the operation returns the
\* storage failure to its caller; and no operation issues the same store
\* call twice.
StorageFailurePropagates ==
    \A w \in Workers :
        obs[w].op # "none" =>
            LET calls == obs[w].calls
            IN  /\ \A i \in 1 .. Len(calls) :
                       calls[i][2] # "ok" /\ calls[i][1] \notin BestEffort
                       => /\ i = Len(calls)
                          /\ pc[w] = "done"
                          /\ res[w] = Err("DatabaseError")
                /\ \A i, j \in 1 .. Len(calls) :
                       calls[i][1] = calls[j][1] => i = j

\* A Login has stored its refresh token and has then failed to update the
\* last login of the account: it returned the storage failure.
LoginFailedAfterCreate ==
    /\ LoginDone(1)
    /\ Len(obs[1].calls) = 4
    /\ obs[1].calls[3] = <<"refresh_tokens.create", "ok">>
    /\ obs[1].calls[4] = <<"update_last_login", "db">>
    /\ res[1] = Err("DatabaseError")
    /\ \E t \in refresh_tokens : t.id = obs[1].created

\* The Register call of worker w has returned, and it gave a well-formed
\* email that no account had and a strong password.
FreshRegister(w) ==
    /\ RegisterDone(w)
    /\ is_valid_email(obs[w].request.email)
    /\ is_strong_password(obs[w].request.password)
    /\ ~obs[w].email_taken

\* The Register call of worker w has created one account: not verified,
\* active, never logged in, with the email and the username given and a hash
\* that verifies the password given.
Registered(w) ==
    /\ res[w].ok
    /\ \E u \in users :
           /\ u.id = res[w].user
           /\ u \notin obs[w].before.users
           /\ users = obs[w].before.users \cup {u}
           /\ u.email = obs[w].request.email
           /\ u.username = obs[w].request.username
           /\ u.email_verified = FALSE
           /\ u.is_active = TRUE
           /\ u.last_login_at = None
           /\ u.password_hash # NoHash
           /\ Verify(obs[w].request.password, u.password_hash)

\* The Login call of worker w has returned, and it gave the email and the
\* password of the successful Register call it came right after.
LoginAfterRegister(w) ==
    /\ LoginDone(w)
    /\ obs[w].follows.op = "register"
    /\ obs[w].follows.email = obs[w].email
    /\ obs[w].follows.password = obs[w].password

\* C19 as stated: a Register call with a well-formed email that no account
\* has and a strong password creates one account, which a following Login
\* with the same credentials enters.
RegisterCreatesAnyName ==
    \A w \in Workers :
        /\ FreshRegister(w) => Registered(w)
        /\ LoginAfterRegister(w) => res[w].ok

\* C19: a Register call with a well-formed email that no account has, a
\* username that no account has and a strong password creates one account,
\* which a following Login with the same credentials enters.
RegisterCreates ==
    \A w \in Workers :
        /\ FreshRegister(w) /\ ~obs[w].name_taken => Registered(w)
        /\ LoginAfterRegister(w) => res[w].ok

\* A Login has succeeded right after the Register call that created the
\* second account.
LoginAfterRegisterSucceeded ==
    /\ LoginAfterRegister(1)
    /\ res[1].ok
    /\ Cardinality(users) = 2
    /\ \E u \in users : u.id = res[1].user /\ u.id = 2

\* A ChangePassword call of worker w has returned.
ChangeDone(w) == obs[w].op = "change" /\ pc[w] = "done"

\* The Login call of worker w has returned, and it named the account of the
\* successful ChangePassword call it came right after.
LoginAfterChange(w) ==
    /\ LoginDone(w)
    /\ obs[w].follows.op = "change"
    /\ \E u \in users :
           u.id = obs[w].follows.user_id /\ u.email = obs[w].email

LoginAfterFailedChange(w) ==
    /\ LoginDone(w)
    /\ obs[w].follows.op = "change_failed"
    /\ \E u \in users :
           u.id = obs[w].follows.user_id /\ u.email = obs[w].email

\* C21: a ChangePassword call fails with WeakPassword when the new password
\* is shorter than 8 characters, else with NotFound when the account does
\* not exist, else with InvalidPassword when the old password does not
\* verify; a ChangePassword call that fails leaves the store as it found it,
\* and a Login that follows with a password that verified before still
\* succeeds.
ChangeFailureKeeps ==
    \A w \in Workers :
        /\ ChangeDone(w)
           => LET before == obs[w].before
                  found == {u \in before.users : u.id = obs[w].user_id}
              IN  /\ Len(obs[w].new_password) < 8
                     => res[w] = Err("WeakPassword")
                  /\ Len(obs[w].new_password) >= 8 /\ found = {}
                     => res[w] = Err("NotFound")
                  /\ /\ Len(obs[w].new_password) >= 8
                     /\ \E u \in found :
                            ~Verify(obs[w].old_password, u.password_hash)
                     => res[w] = Err("InvalidPassword")
                  /\ ~res[w].ok
                     => /\ users = before.users
                        /\ refresh_tokens = before.refresh_tokens
                        /\ login_attempts = before.login_attempts
        /\ LoginAfterFailedChange(w)
           => /\ \A h \in obs[w].follows.hashes :
                     Verify(obs[w].password, h) => res[w].ok

\* A Login with the password of the account has succeeded right after a
\* ChangePassword call for that account was refused for a wrong old
\* password.
OldPasswordKeptWorking ==
    /\ LoginAfterFailedChange(1)
    /\ obs[1].follows.err = "InvalidPassword"
    /\ res[1].ok

\* The RefreshToken call of worker w has returned; it came right after a
\* successful ChangePassword call and presented a credential that, when that
\* call started, was stored for its account and had not expired.
RefreshAfterChange(w) ==
    /\ RefreshDone(w)
    /\ obs[w].follows.op = "change"
    /\ \E t \in obs[w].follows.refresh_tokens :
           /\ t.user_id = obs[w].follows.user_id
           /\ t.token_hash = obs[w].token
           /\ t.expires_at > obs[w].at

\* C22: a ChangePassword call leaves the refresh tokens as it found them,
\* and a credential that was stored for the account and not expired before
\* a successful ChangePassword call is accepted by the RefreshToken call that
\* follows.
ChangeKeepsSessions ==
    \A w \in Workers :
        /\ ChangeDone(w) => refresh_tokens = obs[w].before.refresh_tokens
        /\ RefreshAfterChange(w) => res[w].ok

\* A RefreshToken call has succeeded right after the password of the account
\* of its credential was changed to another one.
SessionSurvivedChange ==
    /\ RefreshAfterChange(1)
    /\ obs[1].follows.old_password # obs[1].follows.new_password
    /\ res[1].ok

\* Worker w has verified an access token that a call had returned.
VerifyDone(w) ==
    /\ pc[w] = "done"
    /\ obs[w].op = "verify"
    /\ obs[w].token \in IssuedTokens

\* C23: the verification of an access token in the instant of its issue
\* returns its subject and an exp later than its iat, and the verification
\* of an access token at any time later than its issue time plus the
\* lifetime of an access token fails.
TokenLifecycle ==
    \A w \in Workers :
        VerifyDone(w) =>
            /\ obs[w].at = obs[w].token.iat =>
                   /\ res[w].ok
                   /\ res[w].claims.sub = obs[w].token.sub
                   /\ res[w].claims.exp > res[w].claims.iat
            /\ obs[w].at > obs[w].token.iat + JWT_EXPIRATION_HOURS * 60 =>
                   ~res[w].ok

\* C24: an access token that a call has returned verifies at every time up
\* to its own expiry and returns its subject, whatever the tables hold: the
\* rows of its account may have been revoked, rotated or deleted and the
\* password changed.
AccessTokenStateless ==
    \A w \in Workers :
        (VerifyDone(w) /\ obs[w].at <= obs[w].token.exp) =>
            /\ res[w].ok
            /\ res[w].claims.sub = obs[w].token.sub

\* An access token has verified although its account was deleted and no
\* refresh token is stored any more.
DeletedAccountTokenVerified ==
    /\ VerifyDone(1)
    /\ obs[1].at <= obs[1].token.exp
    /\ res[1].ok
    /\ ~\E u \in obs[1].before.users : u.id = obs[1].token.sub
    /\ obs[1].before.refresh_tokens = {}

\* Worker w has verified a password against a hash made by hash.
PasswordVerified(w) ==
    /\ pc[w] = "done"
    /\ obs[w].op = "verify_password"
    /\ obs[w].hash # Garbage

\* C25: verify of a password against a hash of the same password returns
\* true, verify of a password against a hash of a different password returns
\* false and no error, and two hashes held at once differ.
PasswordVerifies ==
    /\ \A w \in Workers :
           PasswordVerified(w) =>
               /\ res[w].ok
               /\ res[w].matches = (obs[w].password = obs[w].hashed)
    /\ \A v, w \in Workers :
           (v # w /\ obs[v].op = "hash" /\ obs[w].op = "hash")
               => res[v].hash # res[w].hash

\* The rows of bag B that satisfy P, counted with their copies.
CountRows(B, P(_)) ==
    LET rows == {a \in BagToSet(B) : P(a)}
    IN  BagCardinality([a \in rows |-> CopiesIn(a, B)])

\* Worker w has counted the failed attempts of an account.
CountDone(w) == pc[w] = "done" /\ obs[w].op = "count"

\* C26: the count of the failed attempts of an account over m minutes is the
\* number of attempt rows of that account with success = false and a
\* timestamp t with now - m <= t <= now.
CountsClosedWindow ==
    \A w \in Workers :
        CountDone(w) =>
            LET InWindow(a) ==
                    /\ a.user_id = obs[w].user_id
                    /\ a.success = FALSE
                    /\ obs[w].at - obs[w].minutes <= a.attempted_at
                    /\ a.attempted_at <= obs[w].at
            IN  res[w].count = CountRows(obs[w].before.login_attempts, InWindow)

\* How many failed attempt records of the account that worker w logs in to
\* lay inside the lockout window, both ends included, when its call started.
FailuresInWindow(w) ==
    LET InWindow(a) ==
            /\ \E u \in obs[w].before.users :
                   u.email = obs[w].email /\ a.user_id = u.id
            /\ a.success = FALSE
            /\ obs[w].at - LOCKOUT_WINDOW_MINUTES <= a.attempted_at
            /\ a.attempted_at <= obs[w].at
    IN  CountRows(obs[w].before.login_attempts, InWindow)

\* C27: a Login call with the correct password of an account succeeds
\* whenever fewer than MAX_FAILED_ATTEMPTS failed attempts of the account lie
\* inside the lockout window, whatever older failures the ledger holds.
AgeingUnlocks ==
    \A w \in Workers :
        (/\ LoginDone(w)
         /\ obs[w].known
         /\ obs[w].password_ok
         /\ FailuresInWindow(w) < MAX_FAILED_ATTEMPTS)
            => res[w].ok

\* A Login call with the correct password has succeeded on a ledger that
\* held nothing but MAX_FAILED_ATTEMPTS failures of the account, recorded at
\* one instant and all older than the window.
UnlockedByAgeing ==
    /\ LoginDone(1)
    /\ obs[1].password_ok
    /\ res[1].ok
    /\ FailuresInWindow(1) = 0
    /\ BagCardinality(obs[1].before.login_attempts) = MAX_FAILED_ATTEMPTS
    /\ \E t \in 0 .. obs[1].at :
           \A a \in BagToSet(obs[1].before.login_attempts) :
               /\ a.user_id = 1
               /\ a.success = FALSE
               /\ a.attempted_at = t

\* C28: no step of Register, Login, RefreshToken, Logout or ChangePassword
\* removes or alters an attempt record: every record of the ledger is in the
\* ledger after the step, in at least as many copies.
LedgerAppendOnly ==
    [][\A a \in BagToSet(login_attempts) :
           CopiesIn(a, login_attempts') >= CopiesIn(a, login_attempts)]_vars

\* A Logout of an account has returned while the ledger holds a failed and a
\* successful attempt of that account.
LedgerKeptThroughLogout ==
    /\ pc[1] = "done"
    /\ obs[1].op = "logout"
    /\ res[1].ok
    /\ \E a, b \in BagToSet(login_attempts) :
           /\ a.user_id = obs[1].user_id /\ a.success
           /\ b.user_id = obs[1].user_id /\ ~b.success

\* The step is a Logout call of worker w.
LogoutTaken(w) ==
    /\ pc[w] \in {"idle", "done"}
    /\ pc'[w] = "done"
    /\ obs'[w].op = "logout"

\* The step is a Logout call of worker w that comes right after a Logout call
\* for the same account.
LogoutRepeated(w) ==
    /\ LogoutTaken(w)
    /\ pc[w] = "done"
    /\ obs[w].op = "logout"
    /\ obs[w].user_id = obs'[w].user_id

\* C29: a Logout call succeeds whether or not the account has refresh
\* tokens, leaves exactly the refresh tokens of the other accounts, and
\* changes nothing when it comes right after a Logout call for the same
\* account.
LogoutDeletesOwnRows ==
    [][/\ LogoutTaken(1) =>
              /\ res'[1].ok
              /\ refresh_tokens' =
                     {t \in refresh_tokens : t.user_id # obs'[1].user_id}
       /\ LogoutRepeated(1) =>
              <<users, refresh_tokens, login_attempts>>' =
                  <<users, refresh_tokens, login_attempts>>]_vars

\* A Logout call has revoked the credential of its account while a refresh
\* token of another account stays stored.
OtherAccountKeptSession ==
    /\ pc[1] = "done"
    /\ obs[1].op = "logout"
    /\ res[1].ok
    /\ \E n \in CredIds :
           /\ creds[n].user_id = obs[1].user_id
           /\ creds[n].issued
           /\ creds[n].revoked
    /\ \E t \in refresh_tokens : t.user_id # obs[1].user_id

RotationDeleteFailed(w) ==
    /\ RefreshDone(w)
    /\ \E i \in Issued(w, "refresh_tokens.delete") : obs[w].calls[i][2] # "ok"
    /\ \A i \in Issued(w, "refresh_tokens.create") : obs[w].calls[i][2] = "ok"
    /\ res[w].err \notin {"PasswordHashingFailed", "Crashed"}

\* C31: a RefreshToken call whose deletion of the old row fails creates the
\* new row all the same and returns the new access token and the new
\* credential; the old row stays stored.
RotationDeleteBestEffort ==
    \A w \in Workers :
        RotationDeleteFailed(w) =>
            /\ res[w].ok
            /\ Cardinality(Issued(w, "refresh_tokens.create")) = 1
            /\ \E t \in refresh_tokens :
                   /\ t.token_hash = res[w].refresh_token_hash
                   /\ t.user_id = res[w].access_token.sub
                   /\ t.token_hash # obs[w].token
            /\ \E t \in refresh_tokens : t.token_hash = obs[w].token

\* A rotation has succeeded although the old row could not be deleted: the
\* account holds the old row and the new one.
RotatedWithoutDelete ==
    /\ RotationDeleteFailed(1)
    /\ res[1].ok
    /\ Cardinality({t \in refresh_tokens :
                       t.user_id = res[1].access_token.sub}) >= 2

\* The accounts that the credential worker w presents was created for.
PresentedOwners(w) ==
    {creds[n].user_id : n \in {m \in CredIds : creds[m].hash = obs[w].token}}

\* C32: a step of a RefreshToken call changes no account, removes no row but
\* the presented one and adds no row but one owned by the owner of the
\* presented credential with expires_at = now + REFRESH_TOKEN_DAYS days; a
\* call that succeeds has added exactly one such row and returns an access
\* token whose subject is that owner.
RotationKeepsOwner ==
    [][pc[1] \in {"r_delete", "r_create"} =>
          /\ users' = users
          /\ \A t \in refresh_tokens \ refresh_tokens' :
                 t.token_hash = obs[1].token
          /\ \A t \in refresh_tokens' \ refresh_tokens :
                 /\ t.user_id \in PresentedOwners(1)
                 /\ t.expires_at = now + REFRESH_TOKEN_DAYS * 24 * 60
                 /\ \A r \in refresh_tokens : r.id # t.id
          /\ (pc'[1] = "done" /\ res'[1].ok) =>
                 /\ Cardinality(refresh_tokens' \ refresh_tokens) = 1
                 /\ res'[1].access_token.sub \in PresentedOwners(1)
                 /\ Cardinality(PresentedOwners(1)) = 1]_vars

\* A rotation for the second account has succeeded while the first account
\* holds a row: each account holds one row.
RotatedNextToOtherAccount ==
    /\ RefreshDone(1)
    /\ res[1].ok
    /\ res[1].access_token.sub = 2
    /\ \E t \in refresh_tokens :
           t.user_id = 2 /\ t.token_hash = res[1].refresh_token_hash
    /\ \E t \in refresh_tokens : t.user_id = 1

\* The failure that the validation of its input gives the call with digest
\* o, or "none" when its input is none of the malformed ones.
InputFailure(o) ==
    IF o.op = "register" /\ o.request.email = EmailBad THEN "InvalidEmail"
    ELSE IF o.op = "register" /\ o.request.password = PassWeak
    THEN "WeakPassword"
    ELSE IF o.op = "login" /\ o.email = EmailBad THEN "InvalidEmail"
    ELSE IF o.op = "change" /\ o.new_password = PassWeak THEN "WeakPassword"
    ELSE IF o.op = "refresh" /\ o.token = <<>> THEN "InvalidRefreshToken"
    ELSE "none"

\* C33: a step that starts a call with a malformed email, a weak password or
\* an empty credential ends the call with InvalidEmail, WeakPassword or
\* InvalidRefreshToken, issues no store call and leaves the accounts, the
\* refresh tokens and the attempt ledger as they are.
ValidationBeforeStore ==
    [][(pc[1] \in {"idle", "done"} /\ InputFailure(obs'[1]) # "none") =>
          /\ pc'[1] = "done"
          /\ res'[1] = Err(InputFailure(obs'[1]))
          /\ obs'[1].calls = <<>>
          /\ <<users, refresh_tokens, login_attempts>>' =
                 <<users, refresh_tokens, login_attempts>>]_vars

\* A Login with a malformed email has been refused after an account was
\* registered, and the ledger is empty.
MalformedLoginUnrecorded ==
    /\ LoginDone(1)
    /\ obs[1].email = EmailBad
    /\ res[1] = Err("InvalidEmail")
    /\ users # {}
    /\ login_attempts = EmptyBag

\* C34: a Login call that returns an error leaves the refresh tokens of the
\* account and its last-login timestamp as they were when the call started.
LoginAllOrNothing ==
    \A w \in Workers :
        (LoginDone(w) /\ ~res[w].ok) =>
            \A u \in obs[w].before.users :
                u.email = obs[w].email =>
                    /\ {t \in refresh_tokens : t.user_id = u.id}
                           = {t \in obs[w].before.refresh_tokens :
                                 t.user_id = u.id}
                    /\ \E v \in users :
                           v.id = u.id /\ v.last_login_at = u.last_login_at

\* The failed attempt records of the bag attempts that name user_id, with
\* their copies.
FailuresOf(attempts, user_id) ==
    LET rows == {a \in BagToSet(attempts) :
                    a.user_id = user_id /\ a.success = FALSE}
    IN  [a \in rows |-> CopiesIn(a, attempts)]

\* C35: a step keeps every failed attempt record of every account; it adds
\* one only when it ends a Login with the wrong password for that account
\* with InvalidPassword; a step that ends a call with TooManyAttempts leaves
\* the ledger as it is; and a Login for an account with MAX_FAILED_ATTEMPTS
\* failed records inside the window is refused with TooManyAttempts whatever
\* successful records lie between them.
FailuresOnlyGrow ==
    [][/\ \A u \in users :
              LET old == FailuresOf(login_attempts, u.id)
                  new == FailuresOf(login_attempts', u.id)
              IN  /\ \A a \in DOMAIN old :
                         a \in DOMAIN new /\ new[a] >= old[a]
                  /\ new # old =>
                         /\ BagCardinality(new) = BagCardinality(old) + 1
                         /\ obs[1].op = "login"
                         /\ obs[1].email = u.email
                         /\ ~obs[1].password_ok
                         /\ pc'[1] = "done"
                         /\ res'[1] = Err("InvalidPassword")
       /\ (pc'[1] = "done" /\ res'[1] = Err("TooManyAttempts")) =>
              login_attempts' = login_attempts
       /\ (pc'[1] = "done" /\ obs'[1].op = "login" /\ obs'[1].known) =>
              \A u \in obs'[1].before.users :
                  (/\ u.email = obs'[1].email
                   /\ FailedRows(obs'[1].before.login_attempts, u.id)
                          >= MAX_FAILED_ATTEMPTS)
                      => res'[1] = Err("TooManyAttempts")]_vars

\* A Login with the correct password has been refused with TooManyAttempts
\* for an account with four failures, then a success, then a fifth failure.
LockedAcrossSuccess ==
    /\ LoginDone(1)
    /\ obs[1].password_ok
    /\ res[1] = Err("TooManyAttempts")
    /\ \E u \in users :
           /\ u.email = obs[1].email
           /\ FailedRows(login_attempts, u.id) = MAX_FAILED_ATTEMPTS
           /\ \E a, b \in BagToSet(login_attempts) :
                  /\ a.user_id = u.id /\ a.success
                  /\ b.user_id = u.id /\ ~b.success
                  /\ b.attempted_at > a.attempted_at
                  /\ CopiesIn(b, login_attempts) = 1
                  /\ \A c \in BagToSet(login_attempts) \ {a, b} :
                         /\ c.user_id = u.id /\ ~c.success
                         /\ c.attempted_at < a.attempted_at

\* The number of refresh token rows of the set rows that account user_id
\* owns.
RowsOf(rows, user_id) == Cardinality({t \in rows : t.user_id = user_id})

\* The refresh token table as the call that worker w ends in this step found
\* it: a rotation past its deletion has taken exactly the row it presented.
FoundByCall(w) ==
    IF obs'[w].op \in {"register", "login", "change"}
    THEN obs'[w].before.refresh_tokens
    ELSE IF pc[w] = "r_create"
    THEN refresh_tokens \cup {loc[w].old_token}
    ELSE refresh_tokens

\* C36: with one worker and a store that never fails, a call that returns
\* leaves each account as many refresh token rows as it found, except that
\* a successful Login adds exactly one row to the account it logs in and
\* keeps every earlier row, and a Logout leaves its account none; a
\* rotation in progress has removed only the unexpired row it presented.
SessionCount ==
    [][/\ pc'[1] = "r_create" =>
              /\ loc'[1].old_token \in refresh_tokens
              /\ pc[1] = "r_delete" =>
                     /\ refresh_tokens' \cup {loc[1].old_token}
                            = refresh_tokens
                     /\ loc[1].old_token \notin refresh_tokens'
       /\ pc'[1] = "done" =>
              \A u \in AccountIds :
                  LET found == RowsOf(FoundByCall(1), u)
                      left == RowsOf(refresh_tokens', u)
                  IN  IF obs'[1].op = "login" /\ res'[1].ok
                         /\ res'[1].user = u
                      THEN /\ left = found + 1
                           /\ FoundByCall(1) \subseteq refresh_tokens'
                      ELSE IF obs'[1].op = "logout" /\ obs'[1].user_id = u
                      THEN res'[1].ok /\ left = 0
                      ELSE left = found]_vars

\* A successful RefreshToken call has returned for an account that holds two
\* refresh token rows, as it did after its two Login calls.
RotatedAmongSessions ==
    /\ RefreshDone(1)
    /\ res[1].ok
    /\ \E n \in CredIds :
           /\ creds[n].hash = res[1].refresh_token_hash
           /\ creds[n].by = "refresh"
           /\ RowsOf(refresh_tokens, creds[n].user_id) = 2

\* The outcome of the ChangePassword call that worker w ends in this step,
\* told from the users table the call found and from its request.
ChangeOutcome(w) ==
    LET o == obs'[w]
        found == {u \in o.before.users : u.id = o.user_id}
    IN  IF ~is_strong_password(o.new_password) THEN "WeakPassword"
        ELSE IF found = {} THEN "NotFound"
        ELSE IF \E u \in found : ~Verify(o.old_password, u.password_hash)
        THEN "InvalidPassword"
        ELSE "none"

\* The outcome of the RefreshToken call that worker w ends in this step,
\* told from the refresh token table the call found and from its request.
RefreshOutcome(w) ==
    IF Len(obs'[w].token) = 0 THEN "InvalidRefreshToken"
    ELSE IF \A t \in FoundByCall(w) : t.token_hash # obs'[w].token
    THEN "InvalidRefreshToken"
    ELSE "none"

\* C37: a step of a RefreshToken, Logout or ChangePassword call leaves the
\* attempt ledger as it is, and the outcome of the call is the one that the
\* users table, the refresh token table and the request determine, whatever
\* the ledger holds.
LedgerOnlyLogin ==
    [][obs'[1].op \in {"refresh", "logout", "change"} =>
          /\ login_attempts' = login_attempts
          /\ pc'[1] = "done" =>
                 res'[1].err =
                     IF obs'[1].op = "change" THEN ChangeOutcome(1)
                     ELSE IF obs'[1].op = "refresh" THEN RefreshOutcome(1)
                     ELSE "none"]_vars

\* A locked-out account that has rotated its refresh token has changed its
\* password.
LockedOutChanged ==
    /\ ChangeDone(1)
    /\ res[1].ok
    /\ FailedRows(obs[1].before.login_attempts, obs[1].user_id)
           >= MAX_FAILED_ATTEMPTS
    /\ \E n \in CredIds :
           /\ creds[n].by = "refresh"
           /\ creds[n].user_id = obs[1].user_id
           /\ creds[n].issued

\* The step is the extractor and the test of the subject of a request that
\* worker w serves.
ExtractTaken(w) ==
    /\ Free(w)
    /\ now' = now
    /\ pc'[w] = "done"
    /\ obs'[w].op = "extract"

\* The step is the first step of the service call of a protected route that
\* worker w serves.
ServiceTaken(w) ==
    /\ Free(w)
    /\ now' = now
    /\ obs'[w].op \in {"logout", "change", "delete"}

\* The route whose handler makes the service call named op.
RouteOf(op) ==
    IF op = "logout" THEN "logout"
    ELSE IF op = "change" THEN "change_password"
    ELSE "delete_user"

\* C38: on the change-password and delete-user routes a request whose
\* verified subject differs from the account id of its path is answered
\* with Unauthorized (HTTP 401) and leaves table users as it is; the service
\* call of either route starts only for the account id that equals the
\* verified subject of its request; and a step changes the password hash of
\* an account or removes it only in such a call for that account.
SubjectOwnsPath ==
    [][/\ (/\ ExtractTaken(1)
           /\ obs'[1].route \in {"change_password", "delete_user"}
           /\ from_request_parts(obs'[1].headers).ok
           /\ from_request_parts(obs'[1].headers).claims.sub
                  # obs'[1].user_id)
              => /\ res'[1] = Err("UnauthorizedAction")
                 /\ Status(obs'[1].route, res'[1]) = 401
                 /\ users' = users
       /\ (ServiceTaken(1) /\ obs'[1].op \in {"change", "delete"})
              => /\ obs[1].op = "extract"
                 /\ obs[1].route = RouteOf(obs'[1].op)
                 /\ res[1].ok
                 /\ res[1].claims.sub = obs'[1].user_id
                 /\ obs[1].user_id = obs'[1].user_id
       /\ \A u \in users :
              (\A v \in users' :
                   v.id = u.id => v.password_hash # u.password_hash)
                  => /\ obs'[1].op \in {"change", "delete"}
                     /\ obs'[1].user_id = u.id]_vars

\* A change-password request for an existing account has been refused
\* because its valid token names another account.
OtherSubjectRefused ==
    /\ pc[1] = "done"
    /\ obs[1].op = "extract"
    /\ obs[1].route = "change_password"
    /\ res[1] = Err("UnauthorizedAction")
    /\ \E u \in users : u.id = obs[1].user_id
    /\ \E t \in IssuedTokens :
           /\ obs[1].headers = {BEARER \o encode(t)}
           /\ verify_token(t).ok
           /\ t.sub # obs[1].user_id
           /\ \E u \in users : u.id = t.sub

\* The header h carries the scheme "Bearer ".
BearerScheme(h) ==
    /\ Len(h) >= Len(BEARER)
    /\ \A i \in 1 .. Len(BEARER) : h[i] = BEARER[i]

\* What follows the scheme in the header h.
BearerText(h) == [i \in 1 .. Len(h) - Len(BEARER) |-> h[i + Len(BEARER)]]

\* C39: a request to a protected route without an Authorization header, or
\* with one that does not start with "Bearer ", is answered with
\* InvalidTokenFormat (HTTP 400), and one whose token fails verification
\* with Unauthorized (HTTP 401); a rejected request changes no table; the
\* service call of a protected route starts only after its request has
\* passed the extractor; and the logout of a request with a valid token is
\* answered with HTTP 200.
ExtractorGuards ==
    [][/\ ExtractTaken(1) =>
              /\ (\A h \in obs'[1].headers : ~BearerScheme(h))
                     => /\ res'[1] = Err("InvalidTokenFormat")
                        /\ Status(obs'[1].route, res'[1]) = 400
              /\ \A h \in obs'[1].headers :
                     (/\ BearerScheme(h)
                      /\ to_str_ok(h)
                      /\ ~verify_token_str(BearerText(h)).ok)
                         => /\ res'[1] = Err("UnauthorizedAction")
                            /\ Status(obs'[1].route, res'[1]) = 401
              /\ ~res'[1].ok =>
                     <<users, refresh_tokens, login_attempts>>'
                         = <<users, refresh_tokens, login_attempts>>
       /\ ServiceTaken(1) =>
              /\ obs[1].op = "extract"
              /\ obs[1].route = RouteOf(obs'[1].op)
              /\ res[1].ok
              /\ \E h \in obs[1].headers :
                     /\ BearerScheme(h)
                     /\ \E t \in PresentableTokens :
                            /\ BearerText(h) = encode(t)
                            /\ t.mac = Mac(Secret, t.sub, t.exp, t.iat)
                            /\ t.exp >= obs[1].at - LEEWAY_MINUTES
                            /\ res[1].claims.sub = t.sub
       /\ (ServiceTaken(1) /\ obs'[1].op = "logout")
              => /\ obs'[1].user_id = res[1].claims.sub
                 /\ Status("logout", res'[1]) = 200]_vars

\* A logout request with an access token that has expired has been refused
\* while the account the token names keeps its refresh token.
ExpiredLogoutRefused ==
    /\ pc[1] = "done"
    /\ obs[1].op = "extract"
    /\ obs[1].route = "logout"
    /\ res[1] = Err("UnauthorizedAction")
    /\ \E t \in IssuedTokens :
           /\ obs[1].headers = {BEARER \o encode(t)}
           /\ t.exp < now
           /\ \E r \in refresh_tokens : r.user_id = t.sub

====
